---------------------------- MODULE Spec2Model ----------------------------
(***************************************************************************)
(* Extraction and category-resolution pipeline of the WhatsApp finance     *)
(* assistant: the category resolver (getCategoryByName and                 *)
(* fuzzyMatchCategory), the response normalizer, schema validation and     *)
(* persistence of transaction candidates (saveTransaction), the tenant     *)
(* category catalog (addCategoryToFamily) and the AI provider registry     *)
(* (AIServiceFactory).                                                     *)
(*                                                                         *)
(* JavaScript strings are modelled as sequences of one-character strings   *)
(* so that toLowerCase, trim and includes are computed, not assumed.       *)
(***************************************************************************)
EXTENDS Integers, Sequences, FiniteSets, TLC

VARIABLES
  \* Resolver runs (SpecResolve).
  rLabel,      \* the categoryName argument
  rCatalog,    \* the availableCategories argument
  rResult,     \* the value getCategoryByName returned
  rPc,         \* "call" before the call, "returned" after, "off" when unused
  \* Provider registry.
  currentProvider,     \* AIServiceFactory.currentProvider, by registry key
  \* Store.
  default_categories,  \* rows of default_categories
  categories_table,    \* rows of categories, in insertion order
  transactions_table,  \* rows of transactions, in insertion order
  \* One inbound text message in processMessage / handleTextMessage.
  mPc,           \* "received", "saving", "caught", "done", "off"
  mCategories,   \* categories fetched by handleTextMessage
  mTransactions, \* the list the save loop iterates
  mIdx,          \* index of the next element of the loop
  mLast,         \* what the latest saveTransaction call did
  mAttempted,    \* number of saveTransaction calls made so far
  mOutcome,      \* how handling the message went so far
  mRejected,     \* the promise returned by processMessage rejected
  mKind,         \* the message type: "text", "image", "audio", "document"
  mIsArray,      \* the extraction result the handler received is an array
  mValidated,    \* number of candidates validate has been called on
  inbox,         \* the webhook call handleIncoming is serving: how many
                 \* of its messages the loop has started, and per message
                 \* where processMessage is and what it has done
  mRaw,          \* what JSON.parse made of the provider's output, NoRaw
                 \* when no output was obtained
  \* Provider registry and extractFromAudio calls (SpecAudio).
  providers,     \* keys of AIServiceFactory.providers, in insertion order
  audioCalls,    \* per call: its position and the provider each step ran on
  switches,      \* number of setProvider calls made since construction
  startup,       \* how constructing the registry ended, and AI_PROVIDER
  switchReply,   \* the latest POST /admin/switch-ai-provider and its answer
  healthChecks,  \* the latest GET /admin/health and its answer
  voice,         \* per voice message in handleAudioMessage: its position,
                 \* its tempPath local and the files it has on disk
  \* Category creation (SpecCatalog).
  catalogCalls,  \* per caller: its position in handleAddCategoryCommand /
                 \* addCategoryToFamily, its arguments and what it returned
  uuidCount,     \* number of ids uuidv4 has produced
  lifeOp         \* the latest call of softDeleteCategory, getCategoriesForFamily
                 \* or initializeDefaultCategoriesForFamily and what it returned

resolveVars == <<rLabel, rCatalog, rResult, rPc>>

storeVars == <<default_categories, categories_table, transactions_table>>

messageVars == <<mPc, mCategories, mTransactions, mIdx, mLast, mAttempted,
                 mOutcome, mRejected, mKind, mIsArray, mValidated, mRaw,
                 inbox>>

audioVars == <<providers, audioCalls, switches, startup, switchReply,
               healthChecks, voice>>

catalogVars == <<catalogCalls, uuidCount, lifeOp>>

vars == <<rLabel, rCatalog, rResult, rPc, currentProvider,
          default_categories, categories_table, transactions_table,
          mPc, mCategories, mTransactions, mIdx, mLast, mAttempted,
          mOutcome, mRejected, mKind, mIsArray, mValidated, mRaw, inbox,
          providers, audioCalls, switches, startup, switchReply,
          healthChecks, voice, catalogCalls, uuidCount, lifeOp>>

---------------------------------------------------------------------------
(* Bounds of the model.                                                    *)

\* Largest number of entries of a catalog handed to the resolver.
MaxCatalog == 3

\* Largest number of elements of a JSON array a backend returns.
MaxCands == 2

\* Number of entries of RawElements, counted from the first, that the
\* elements of a JSON array are drawn from (a single JSON object is drawn
\* from all of them).
ArrayChoices == 4

\* Number of setProvider calls made after construction.
MaxSwitches == 2

\* Number of extractFromAudio calls in flight together.
MaxAudioCalls == 2

\* Number of voice messages handled together.
MaxVoice == 2

\* Number of callers creating categories together.
MaxCallers == 2

\* Number of creations the callers start between them.
MaxAdds == 2

\* Number of softDeleteCategory calls made for the families.
MaxDeletes == 2

\* Messages of one webhook call.
MaxMessages == 2

\* Length sanitizeInput cuts its input to.
MaxInputLen == 1000

\* Number of initializeDefaultCategoriesForFamily runs for one family.
MaxInits == 2

---------------------------------------------------------------------------
(* Limits of transactionSchema.                                            *)

MaxCategoryLen == 50

MaxDescriptionLen == 500

MaxVendorLen == 100

---------------------------------------------------------------------------
(* JavaScript values and string operations.                                *)

\* null / undefined where an id or an object is expected.
NULL == "null"

UpperChars == <<"A","B","C","D","E","F","G","H","I","J","K","L","M",
                "N","O","P","Q","R","S","T","U","V","W","X","Y","Z">>

LowerChars == <<"a","b","c","d","e","f","g","h","i","j","k","l","m",
                "n","o","p","q","r","s","t","u","v","w","x","y","z">>

\* The lower-case letter of every upper-case letter.
upperToLower ==
  [c \in {UpperChars[i] : i \in 1..Len(UpperChars)} |->
     LowerChars[CHOOSE i \in 1..Len(UpperChars) : UpperChars[i] = c]]

\* String.prototype.toLowerCase, one character.
toLowerChar(c) == IF c \in DOMAIN upperToLower THEN upperToLower[c] ELSE c

\* String.prototype.toLowerCase.
toLowerCase(s) == [i \in 1..Len(s) |-> toLowerChar(s[i])]

\* String.prototype.startsWith.
startsWith(s, t) == Len(s) >= Len(t) /\ SubSeq(s, 1, Len(t)) = t

\* String.prototype.trim: strips leading and trailing whitespace.
trim(s) ==
  LET keep == {i \in 1..Len(s) : s[i] # " "}
  IN IF keep = {} THEN <<>>
     ELSE LET lo == CHOOSE i \in keep : \A j \in keep : i <= j
              hi == CHOOSE i \in keep : \A j \in keep : i >= j
          IN SubSeq(s, lo, hi)

\* String.prototype.includes: t occurs in s as a contiguous substring.
includes(s, t) ==
  \E off \in 0..(Len(s) - Len(t)) : \A j \in 1..Len(t) : s[off + j] = t[j]

\* Array.prototype.find over the indices whose element satisfies the
\* callback: the first such index, or 0 where find returns undefined.
find(hits) ==
  IF hits = {} THEN 0 ELSE CHOOSE i \in hits : \A j \in hits : i <= j

---------------------------------------------------------------------------
(* Category resolver.                                                      *)

\* The keyword -> target-name table of fuzzyMatchCategory, in declaration
\* order (Object.entries iterates string keys in insertion order).
categoryMappings == <<
  [keyword |-> <<"b","i","l","l","s">>,
   targetCategories |-> <<<<"h","o","u","s","e">>, <<"u","t","i","l","i","t","i","e","s">>, <<"b","i","l","l">>>>],
  [keyword |-> <<"h","o","m","e">>,
   targetCategories |-> <<<<"h","o","u","s","e">>>>],
  [keyword |-> <<"h","o","u","s","e">>,
   targetCategories |-> <<<<"h","o","m","e">>, <<"b","i","l","l","s">>>>],
  [keyword |-> <<"g","r","o","c","e","r","i","e","s">>,
   targetCategories |-> <<<<"f","o","o","d">>, <<"f","o","o","d"," ","&"," ","d","i","n","n","i","n","g">>>>],
  [keyword |-> <<"f","o","o","d">>,
   targetCategories |-> <<<<"f","o","o","d"," ","&"," ","d","i","n","n","i","n","g">>, <<"g","r","o","c","e","r","i","e","s">>>>],
  [keyword |-> <<"d","i","n","i","n","g">>,
   targetCategories |-> <<<<"f","o","o","d"," ","&"," ","d","i","n","n","i","n","g">>, <<"f","o","o","d">>>>],
  [keyword |-> <<"r","e","s","t","a","u","r","a","n","t">>,
   targetCategories |-> <<<<"f","o","o","d"," ","&"," ","d","i","n","n","i","n","g">>, <<"e","n","t","e","r","t","a","i","n","m","e","n","t">>>>],
  [keyword |-> <<"t","r","a","n","s","p","o","r","t">>,
   targetCategories |-> <<<<"t","r","a","n","s","p","o","r","t","a","t","i","o","n">>>>],
  [keyword |-> <<"c","a","r">>,
   targetCategories |-> <<<<"t","r","a","n","s","p","o","r","t","a","t","i","o","n">>>>],
  [keyword |-> <<"f","u","e","l">>,
   targetCategories |-> <<<<"t","r","a","n","s","p","o","r","t","a","t","i","o","n">>>>],
  [keyword |-> <<"g","a","s">>,
   targetCategories |-> <<<<"t","r","a","n","s","p","o","r","t","a","t","i","o","n">>>>],
  [keyword |-> <<"m","e","d","i","c","a","l">>,
   targetCategories |-> <<<<"h","e","a","l","t","h"," ","&"," ","p","e","r","s","o","n","a","l"," ","c","a","r","e">>>>],
  [keyword |-> <<"h","e","a","l","t","h">>,
   targetCategories |-> <<<<"h","e","a","l","t","h"," ","&"," ","p","e","r","s","o","n","a","l"," ","c","a","r","e">>>>],
  [keyword |-> <<"d","o","c","t","o","r">>,
   targetCategories |-> <<<<"h","e","a","l","t","h"," ","&"," ","p","e","r","s","o","n","a","l"," ","c","a","r","e">>>>],
  [keyword |-> <<"m","e","d","i","c","i","n","e">>,
   targetCategories |-> <<<<"h","e","a","l","t","h"," ","&"," ","p","e","r","s","o","n","a","l"," ","c","a","r","e">>>>],
  [keyword |-> <<"m","o","v","i","e","s">>,
   targetCategories |-> <<<<"e","n","t","e","r","t","a","i","n","m","e","n","t">>>>],
  [keyword |-> <<"g","a","m","e">>,
   targetCategories |-> <<<<"e","n","t","e","r","t","a","i","n","m","e","n","t">>>>],
  [keyword |-> <<"g","y","m">>,
   targetCategories |-> <<<<"h","e","a","l","t","h"," ","&"," ","p","e","r","s","o","n","a","l"," ","c","a","r","e">>>>],
  [keyword |-> <<"s","a","l","a","r","y">>,
   targetCategories |-> <<<<"e","m","p","l","o","y","m","e","n","t">>>>],
  [keyword |-> <<"i","n","c","o","m","e">>,
   targetCategories |-> <<<<"e","m","p","l","o","y","m","e","n","t">>, <<"o","t","h","e","r">>>>],
  [keyword |-> <<"i","n","v","e","s","t","m","e","n","t">>,
   targetCategories |-> <<<<"i","n","v","e","s","t","m","e","n","t">>>>],
  [keyword |-> <<"r","e","n","t">>,
   targetCategories |-> <<<<"r","e","n","t","a","l">>, <<"h","o","u","s","e">>>>],
  [keyword |-> <<"r","e","n","t","a","l">>,
   targetCategories |-> <<<<"r","e","n","t">>>>],
  [keyword |-> <<"e","d","u","c","a","t","i","o","n">>,
   targetCategories |-> <<<<"e","d","u","c","a","t","i","o","n">>>>],
  [keyword |-> <<"s","c","h","o","o","l">>,
   targetCategories |-> <<<<"e","d","u","c","a","t","i","o","n">>>>],
  [keyword |-> <<"k","i","d","s">>,
   targetCategories |-> <<<<"c","h","i","l","d"," ","c","a","r","e">>>>],
  [keyword |-> <<"c","h","i","l","d","r","e","n">>,
   targetCategories |-> <<<<"c","h","i","l","d"," ","c","a","r","e">>>>],
  [keyword |-> <<"b","a","b","y">>,
   targetCategories |-> <<<<"c","h","i","l","d"," ","c","a","r","e">>>>],
  [keyword |-> <<"p","e","t">>,
   targetCategories |-> <<<<"p","e","t","s">>>>],
  [keyword |-> <<"d","o","g">>,
   targetCategories |-> <<<<"p","e","t","s">>>>],
  [keyword |-> <<"c","a","t">>,
   targetCategories |-> <<<<"p","e","t","s">>>>],
  [keyword |-> <<"s","h","o","p","p","i","n","g">>,
   targetCategories |-> <<<<"s","h","o","p","p","i","n","g">>>>],
  [keyword |-> <<"c","l","o","t","h","e","s">>,
   targetCategories |-> <<<<"s","h","o","p","p","i","n","g">>>>],
  [keyword |-> <<"t","r","a","v","e","l">>,
   targetCategories |-> <<<<"t","r","a","v","e","l">>>>],
  [keyword |-> <<"t","r","i","p">>,
   targetCategories |-> <<<<"t","r","a","v","e","l">>>>],
  [keyword |-> <<"v","a","c","a","t","i","o","n">>,
   targetCategories |-> <<<<"t","r","a","v","e","l">>>>],
  [keyword |-> <<"f","l","i","g","h","t">>,
   targetCategories |-> <<<<"t","r","a","v","e","l">>>>],
  [keyword |-> <<"b","u","s","i","n","e","s","s">>,
   targetCategories |-> <<<<"b","u","s","i","n","e","s","s">>>>]
>>

\* The inner loop of fuzzyMatchCategory: the first target name, in list
\* order, that some catalog name contains; the index of the first such
\* catalog entry, or 0.
RECURSIVE scanTargets(_, _, _)
scanTargets(t, targetCategories, availableCategories) ==
  IF t > Len(targetCategories) THEN 0
  ELSE LET found == find({i \in 1..Len(availableCategories) :
                            includes(toLowerCase(availableCategories[i].name),
                                     toLowerCase(targetCategories[t]))})
       IN IF found # 0 THEN found
          ELSE scanTargets(t + 1, targetCategories, availableCategories)

\* The outer loop of fuzzyMatchCategory over the table's entries.
RECURSIVE scanKeywords(_, _, _)
scanKeywords(k, requested, availableCategories) ==
  IF k > Len(categoryMappings) THEN 0
  ELSE IF includes(requested, categoryMappings[k].keyword)
       THEN LET found == scanTargets(1, categoryMappings[k].targetCategories,
                                     availableCategories)
            IN IF found # 0 THEN found
               ELSE scanKeywords(k + 1, requested, availableCategories)
       ELSE scanKeywords(k + 1, requested, availableCategories)

\* The last step of fuzzyMatchCategory: bidirectional containment.
partialMatch(requested, availableCategories) ==
  find({i \in 1..Len(availableCategories) :
          \/ includes(requested, toLowerCase(availableCategories[i].name))
          \/ includes(toLowerCase(availableCategories[i].name), requested)})

\* Mutant of fuzzyMatchCategory: the containment check runs before the
\* keyword table.
fuzzyMatchCategory_SubstringFirst(requestedCategory, availableCategories) ==
  LET requested == trim(toLowerCase(requestedCategory))
      byName == partialMatch(requested, availableCategories)
  IN IF byName # 0 THEN byName
     ELSE scanKeywords(1, requested, availableCategories)

\* fuzzyMatchCategory: index of the matched catalog entry, 0 for null.
fuzzyMatchCategory(requestedCategory, availableCategories) ==
  LET requested == trim(toLowerCase(requestedCategory))
      byKeyword == scanKeywords(1, requested, availableCategories)
  IN IF byKeyword # 0 THEN byKeyword
     ELSE partialMatch(requested, availableCategories)

\* Mutant of otherCategory: the fallback lookup finds nothing.
otherCategory_Never(availableCategories) == 0

\* The "Other" lookup of getCategoryByName.
otherCategory(availableCategories) ==
  find({i \in 1..Len(availableCategories) :
          /\ toLowerCase(availableCategories[i].name) = <<"o","t","h","e","r">>
          /\ availableCategories[i].type = "expense"})

\* Mutant of getCategoryByName: the exact-match step is skipped.
getCategoryByName_NoExact(categoryName, availableCategories) ==
  IF Len(availableCategories) = 0 THEN NULL
  ELSE
    LET matchedCategory == fuzzyMatchCategory(categoryName, availableCategories)
        other == otherCategory(availableCategories)
    IN IF matchedCategory # 0
       THEN availableCategories[matchedCategory].category_id
       ELSE IF other # 0 THEN availableCategories[other].category_id
            ELSE NULL

\* A categoryName that is not a string (undefined, null, a number):
\* categoryName.toLowerCase is not a function.
NotAString == <<"undefined">>

\* The exception .toLowerCase() raises on such a value.
TypeError == "TypeError"

\* The try block of getCategoryByName: the category_id of the resolved
\* entry, NULL, or the exception raised.
getCategoryByNameTry(categoryName, availableCategories) ==
  IF Len(availableCategories) = 0 THEN NULL
  ELSE IF categoryName = NotAString THEN TypeError
  ELSE
    LET requested == trim(toLowerCase(categoryName))
        exactMatch == find({i \in 1..Len(availableCategories) :
                              toLowerCase(availableCategories[i].name) = requested})
        matchedCategory == fuzzyMatchCategory(categoryName, availableCategories)
        other == otherCategory(availableCategories)
    IN IF exactMatch # 0 THEN availableCategories[exactMatch].category_id
       ELSE IF matchedCategory # 0
            THEN availableCategories[matchedCategory].category_id
            ELSE IF other # 0 THEN availableCategories[other].category_id
                 ELSE NULL

\* Mutant of getCategoryByName: no catch block, the exception escapes.
getCategoryByName_NoCatch(categoryName, availableCategories) ==
  getCategoryByNameTry(categoryName, availableCategories)

\* getCategoryByName: the try block, and the catch block that logs the
\* exception and returns null.
getCategoryByName(categoryName, availableCategories) ==
  LET returned == getCategoryByNameTry(categoryName, availableCategories)
  IN IF returned = TypeError THEN NULL ELSE returned

---------------------------------------------------------------------------
(* Response normalizer: _parseTransactionJSON of the two providers.        *)
(*                                                                         *)
(* A backend's raw text is modelled by what JSON.parse makes of it after   *)
(* the fence markers are stripped: kind "invalid" (JSON.parse throws),     *)
(* "scalar" (null, a number, a string), "object" (items holds the one      *)
(* object) or "array" (items holds the elements).  An element is a record  *)
(* of the fields the normalizer reads; isObject is FALSE for an array      *)
(* element that is not an object.  Amounts are integers in thousandths.    *)
(* A field that is absent, null or empty is "" (<<>> for text fields, 0    *)
(* for the lengths of vendor and description).                             *)

\* JavaScript truthiness of the amount field (!txn.amount is its negation):
\* a non-zero number or a non-empty string.
truthyAmount(amount) ==
  \/ amount.k = "num" /\ amount.v # 0
  \/ amount.k = "str"

\* parseFloat(txn.amount): the number, or NaN for a string with no numeric
\* prefix.
parseFloat(amount) == [v |-> amount.v, nan |-> amount.nan]

lowerToUpper ==
  [c \in {LowerChars[i] : i \in 1..Len(LowerChars)} |->
     UpperChars[CHOOSE i \in 1..Len(LowerChars) : LowerChars[i] = c]]

\* String.prototype.toUpperCase.
toUpperCase(s) ==
  [i \in 1..Len(s) |-> IF s[i] \in DOMAIN lowerToUpper THEN lowerToUpper[s[i]]
                       ELSE s[i]]

\* The vendor of an output element whose vendor was absent, null or empty:
\* "txn.vendor || null".  Vendors are modelled by their length; null, which
\* has no length, is the one negative value.
NullVendor == 0 - 1

\* The object literal both parsers return for an element with an amount.
normalizedFields(txn) ==
  [type        |-> IF txn.type = "" THEN "debit" ELSE txn.type,
   amount      |-> parseFloat(txn.amount),
   currency    |-> toUpperCase(IF txn.currency = <<>> THEN <<"I","N","R">>
                               ELSE txn.currency),
   date        |-> IF txn.date = "" THEN "today" ELSE txn.date,
   category    |-> IF txn.category = <<>> THEN <<"O","t","h","e","r">>
                   ELSE txn.category,
   vendor      |-> IF txn.vendor = 0 THEN NullVendor ELSE txn.vendor,
   description |-> txn.description]

\* normalizeTransaction of GeminiProvider._parseTransactionJSON: the list
\* holding the normalized element, or the empty list where it returns null.
normalizeTransaction(txn) ==
  IF ~txn.isObject THEN <<>>
  ELSE IF ~truthyAmount(txn.amount) THEN <<>>
  ELSE <<normalizedFields(txn)>>

\* parsed.map(normalizeTransaction).filter(t => t !== null)
RECURSIVE mapNormalize(_)
mapNormalize(items) ==
  IF items = <<>> THEN <<>>
  ELSE normalizeTransaction(Head(items)) \o mapNormalize(Tail(items))

\* No provider output was parsed for the message.
NoRaw == [kind |-> "none", items |-> <<>>]

\* What the parsers return: null, one transaction object, or an array.
NullResult == [kind |-> "null", items |-> <<>>]

\* GeminiProvider._parseTransactionJSON.
parseTransactionJSON_Gemini(raw) ==
  CASE raw.kind = "invalid" -> NullResult
    [] raw.kind = "scalar" -> NullResult
    [] raw.kind = "array" ->
         LET normalized == mapNormalize(raw.items)
         IN IF Len(normalized) > 0 THEN [kind |-> "array", items |-> normalized]
            ELSE NullResult
    [] raw.kind = "object" ->
         LET normalized == normalizeTransaction(raw.items[1])
         IN IF normalized = <<>> THEN NullResult
            ELSE [kind |-> "object", items |-> normalized]

\* OpenAIProvider._parseTransactionJSON: reads parsed.amount of whatever
\* object JSON.parse returned; an array has no amount property.
parseTransactionJSON_OpenAI(raw) ==
  CASE raw.kind = "invalid" -> NullResult
    [] raw.kind = "scalar" -> NullResult
    [] raw.kind = "array" -> NullResult
    [] raw.kind = "object" ->
         IF ~truthyAmount(raw.items[1].amount) THEN NullResult
         ELSE [kind |-> "object", items |-> <<normalizedFields(raw.items[1])>>]

\* The parser of the provider that served the extraction call.
parseTransactionJSON(provider, raw) ==
  IF provider = "gemini" THEN parseTransactionJSON_Gemini(raw)
  ELSE parseTransactionJSON_OpenAI(raw)

---------------------------------------------------------------------------
(* Schema validation: validate(transactionSchema, transaction).            *)

\* Joi number().precision(2) under convert: Math.round(value * 100) / 100,
\* on thousandths (Math.round rounds halves towards +Infinity).
roundPrecision2(v) == ((v + 5) \div 10) * 10

\* The value Joi returns for a transaction that passes the schema.
convertedValue(transaction) ==
  [transaction EXCEPT !.amount = [v |-> roundPrecision2(transaction.amount.v),
                                  nan |-> FALSE]]

\* Mutant of transactionSchema: the amount rule lacks .positive().
transactionSchema_NoPositive(transaction) ==
  /\ transaction.type \in {"credit", "debit"}
  /\ ~transaction.amount.nan
  /\ Len(transaction.currency) = 3
  /\ Len(transaction.category) <= MaxCategoryLen
  /\ transaction.date \in {"past", "today"}
  /\ transaction.description <= MaxDescriptionLen
  /\ transaction.vendor <= MaxVendorLen

\* transactionSchema: every rule of the schema on the fields the parsers set.
transactionSchema(transaction) ==
  /\ transaction.type \in {"credit", "debit"}
  /\ ~transaction.amount.nan
  /\ roundPrecision2(transaction.amount.v) > 0
  /\ Len(transaction.currency) = 3
  /\ Len(transaction.category) <= MaxCategoryLen
  /\ transaction.date \in {"past", "today"}
  /\ transaction.description <= MaxDescriptionLen
  /\ transaction.vendor <= MaxVendorLen

\* Mutant of validate: the result is reported valid whatever the schema says.
validate_AlwaysValid(transaction) ==
  [valid |-> TRUE, value |-> convertedValue(transaction)]

\* validate: {valid, value}.
validate(transaction) ==
  IF transactionSchema(transaction)
  THEN [valid |-> TRUE, value |-> convertedValue(transaction)]
  ELSE [valid |-> FALSE, value |-> transaction]

---------------------------------------------------------------------------
(* Store: default_categories, categories and transactions tables.          *)

\* Rank of a character in the store's collation of names.
Alphabet == <<" ", "&">> \o LowerChars

charRank(c) == CHOOSE i \in 1..Len(Alphabet) : Alphabet[i] = toLowerChar(c)

\* a sorts strictly before b under ORDER BY name ASC.
RECURSIVE nameBefore(_, _)
nameBefore(a, b) ==
  IF b = <<>> THEN FALSE
  ELSE IF a = <<>> THEN TRUE
  ELSE IF charRank(Head(a)) # charRank(Head(b))
       THEN charRank(Head(a)) < charRank(Head(b))
       ELSE nameBefore(Tail(a), Tail(b))

\* .order('name', { ascending: true }) over a list of rows: insertion sort,
\* rows of equal rank keep their order.
RECURSIVE orderByName(_)
orderByName(rows) ==
  IF rows = <<>> THEN <<>>
  ELSE LET rest == orderByName(Tail(rows))
           before == {i \in 1..Len(rest) : ~nameBefore(Head(rows).name, rest[i].name)}
           k == IF before = {} THEN 0
                ELSE CHOOSE i \in before : \A j \in before : j <= i
       IN SubSeq(rest, 1, k) \o <<Head(rows)>> \o SubSeq(rest, k + 1, Len(rest))

\* The select list of the default_categories query of getCategoriesForFamily
\* (category_id is an alias of default_category_id).
RECURSIVE selectDefaults(_)
selectDefaults(rows) ==
  IF rows = <<>> THEN <<>>
  ELSE <<[category_id |-> Head(rows).default_category_id,
          name |-> Head(rows).name, type |-> Head(rows).type]>>
       \o selectDefaults(Tail(rows))

\* The select list of the categories query of getCategoriesForFamily.
RECURSIVE selectCategories(_)
selectCategories(rows) ==
  IF rows = <<>> THEN <<>>
  ELSE <<[category_id |-> Head(rows).category_id,
          name |-> Head(rows).name, type |-> Head(rows).type]>>
       \o selectCategories(Tail(rows))

\* The custom-category query of getCategoriesForFamily.
isActiveCustom(row, familyId) ==
  /\ row.family_id = familyId
  /\ row.is_deleted = FALSE
  /\ row.default_category_id = NULL

\* Mutant of getCategoriesForFamily: the list is read from the family's own
\* rows of categories that are not deleted, template copies included, and
\* default_categories is not consulted.
getCategoriesForFamily_FamilyRowsOnly(familyId) ==
  selectCategories(orderByName(
    SelectSeq(categories_table,
              LAMBDA row : row.family_id = familyId /\ row.is_deleted = FALSE)))

\* getCategoriesForFamily when both queries succeed: the templates, then the
\* family's active custom categories, each ordered by name.
getCategoriesForFamily(familyId) ==
  selectDefaults(orderByName(default_categories))
    \o selectCategories(orderByName(
         SelectSeq(categories_table, LAMBDA row : isActiveCustom(row, familyId))))

\* The row insertTransaction writes.
insertTransaction(transactionData) ==
  [family_id   |-> transactionData.family_id,
   amount      |-> transactionData.amount,
   type        |-> transactionData.type,
   category_id |-> transactionData.category_id]

---------------------------------------------------------------------------
(* saveTransaction.                                                        *)

Other == <<"o","t","h","e","r">>

\* What one call of saveTransaction did: whether the candidate passed
\* validation, whether getCategoryByName was called and what it returned,
\* the wasNotFound flag, whether insertTransaction wrote a row, the text
\* messages and reactions delivered to the sender in order, and whether an
\* error left the function.
NoOutcome ==
  [valid |-> FALSE, resolved |-> FALSE, categoryId |-> NULL,
   wasNotFound |-> FALSE, insertCalled |-> FALSE, inserted |-> FALSE,
   amount |-> 0, type |-> "", label |-> <<>>,
   sent |-> <<>>, reactions |-> <<>>, threw |-> FALSE]

\* Lines 366-395 of saveTransaction: validation, category resolution, the
\* wasNotFound flag and the row to insert.  Nothing here touches the store
\* or the sender.
prepareSave(transaction, user, categories) ==
  LET v == validate(transaction)
      categoryId == getCategoryByName(v.value.category, categories)
      matchedCategory == find({i \in 1..Len(categories) :
                                 categories[i].category_id = categoryId})
      wasNotFound == /\ matchedCategory # 0
                     /\ toLowerCase(categories[matchedCategory].name) = Other
                     /\ toLowerCase(v.value.category) # Other
  IN IF ~v.valid
     THEN [NoOutcome EXCEPT !.label = transaction.category]
     ELSE [NoOutcome EXCEPT !.valid = TRUE, !.resolved = TRUE,
                            !.categoryId = categoryId,
                            !.wasNotFound = wasNotFound,
                            !.amount = v.value.amount.v,
                            !.type = v.value.type,
                            !.label = v.value.category]

\* The catch block of saveTransaction, entered when the k-th awaited
\* sendTextMessage or the insert has thrown: one more sendTextMessage, whose
\* failure leaves saveTransaction as a rejected promise.
catchSave(o, sendOk, k) ==
  IF sendOk[k]
  THEN [o EXCEPT !.sent = Append(@, "saveFailed"), !.reactions = Append(@, "cross")]
  ELSE [o EXCEPT !.threw = TRUE]

\* Mutant of completeSave: the confirmation and the reaction are sent before
\* insertTransaction is awaited.
completeSave_ConfirmFirst(p, insertOk, sendOk) ==
  IF ~p.valid
  THEN IF sendOk[1]
       THEN [p EXCEPT !.sent = <<"extractionError">>, !.reactions = <<"cross">>]
       ELSE catchSave(p, sendOk, 2)
  ELSE LET confirmed == [p EXCEPT !.sent = <<"confirmation">>,
                                  !.reactions = <<"check">>]
           called == [confirmed EXCEPT !.insertCalled = TRUE]
           saved == [called EXCEPT !.inserted = TRUE]
       IN IF ~sendOk[1] THEN catchSave(p, sendOk, 2)
          ELSE IF ~insertOk THEN catchSave(called, sendOk, 2)
          ELSE IF ~p.wasNotFound THEN saved
          ELSE IF sendOk[2]
               THEN [saved EXCEPT !.sent = Append(@, "advisory")]
               ELSE catchSave(saved, sendOk, 3)

\* The awaited calls of saveTransaction (lines 369-374 and 397-429) for a
\* prepared candidate: insertOk says whether the store accepts the insert,
\* sendOk[k] whether the k-th sendTextMessage of this call is delivered.
\* sendReaction never throws.
completeSave(p, insertOk, sendOk) ==
  IF ~p.valid
  THEN IF sendOk[1]
       THEN [p EXCEPT !.sent = <<"extractionError">>, !.reactions = <<"cross">>]
       ELSE catchSave(p, sendOk, 2)
  ELSE LET called == [p EXCEPT !.insertCalled = TRUE]
           saved == [called EXCEPT !.inserted = TRUE]
           confirmed == [saved EXCEPT !.sent = <<"confirmation">>,
                                      !.reactions = <<"check">>]
       IN IF ~insertOk THEN catchSave(called, sendOk, 1)
          ELSE IF ~sendOk[1] THEN catchSave(saved, sendOk, 2)
          ELSE IF ~p.wasNotFound THEN confirmed
          ELSE IF sendOk[2]
               THEN [confirmed EXCEPT !.sent = Append(@, "advisory")]
               ELSE catchSave(confirmed, sendOk, 3)

\* transactionData of saveTransaction, as insertTransaction receives it.
transactionData(p, user) ==
  [family_id |-> user.family_id, amount |-> p.amount, type |-> p.type,
   category_id |-> p.categoryId]

---------------------------------------------------------------------------
(* Inputs of the message pipeline.                                         *)

\* Elements a backend's JSON output is built from.  Absent fields default to
\* a debit of 500 with label Pilates; each element is named by what differs.
RawElements == <<
  \* groceries, 500
  [isObject |-> TRUE, type |-> "debit", amount |-> [k |-> "num", v |-> 500000, nan |-> FALSE],
   currency |-> <<>>, date |-> "",
   category |-> <<"g","r","o","c","e","r","i","e","s">>,
   vendor |-> 0, description |-> 0],
  \* amount -50
  [isObject |-> TRUE, type |-> "debit", amount |-> [k |-> "num", v |-> -50000, nan |-> FALSE],
   currency |-> <<>>, date |-> "",
   category |-> <<"P","i","l","a","t","e","s">>,
   vendor |-> 0, description |-> 0],
  \* Pilates, 500
  [isObject |-> TRUE, type |-> "debit", amount |-> [k |-> "num", v |-> 500000, nan |-> FALSE],
   currency |-> <<>>, date |-> "",
   category |-> <<"P","i","l","a","t","e","s">>,
   vendor |-> 0, description |-> 0],
  \* amount 0
  [isObject |-> TRUE, type |-> "debit", amount |-> [k |-> "num", v |-> 0, nan |-> FALSE],
   currency |-> <<>>, date |-> "",
   category |-> <<"P","i","l","a","t","e","s">>,
   vendor |-> 0, description |-> 0],
  \* Food & Dining, credit, 0.005
  [isObject |-> TRUE, type |-> "credit", amount |-> [k |-> "num", v |-> 5, nan |-> FALSE],
   currency |-> <<"i","n","r">>, date |-> "past",
   category |-> <<"F","o","o","d"," ","&"," ","D","i","n","i","n","g">>,
   vendor |-> 5, description |-> 0],
  \* another, 400
  [isObject |-> TRUE, type |-> "debit", amount |-> [k |-> "num", v |-> 400000, nan |-> FALSE],
   currency |-> <<>>, date |-> "",
   category |-> <<"a","n","o","t","h","e","r">>,
   vendor |-> 0, description |-> 20],
  \* income, 100000
  [isObject |-> TRUE, type |-> "credit", amount |-> [k |-> "num", v |-> 100000000, nan |-> FALSE],
   currency |-> <<>>, date |-> "",
   category |-> <<"i","n","c","o","m","e">>,
   vendor |-> 0, description |-> 0],
  \* other, no type, category absent
  [isObject |-> TRUE, type |-> "", amount |-> [k |-> "num", v |-> 500000, nan |-> FALSE],
   currency |-> <<>>, date |-> "today",
   category |-> <<>>,
   vendor |-> 0, description |-> 0],
  \* amount null or absent
  [isObject |-> TRUE, type |-> "debit", amount |-> [k |-> "null", v |-> 0, nan |-> FALSE],
   currency |-> <<>>, date |-> "",
   category |-> <<"P","i","l","a","t","e","s">>,
   vendor |-> 0, description |-> 0],
  \* amount "0"
  [isObject |-> TRUE, type |-> "debit", amount |-> [k |-> "str", v |-> 0, nan |-> FALSE],
   currency |-> <<>>, date |-> "",
   category |-> <<"P","i","l","a","t","e","s">>,
   vendor |-> 0, description |-> 0],
  \* amount "abc"
  [isObject |-> TRUE, type |-> "debit", amount |-> [k |-> "str", v |-> 0, nan |-> TRUE],
   currency |-> <<>>, date |-> "",
   category |-> <<"P","i","l","a","t","e","s">>,
   vendor |-> 0, description |-> 0],
  \* amount 0.004
  [isObject |-> TRUE, type |-> "debit", amount |-> [k |-> "num", v |-> 4, nan |-> FALSE],
   currency |-> <<>>, date |-> "",
   category |-> <<"P","i","l","a","t","e","s">>,
   vendor |-> 0, description |-> 0],
  \* type transfer
  [isObject |-> TRUE, type |-> "transfer", amount |-> [k |-> "num", v |-> 500000, nan |-> FALSE],
   currency |-> <<>>, date |-> "",
   category |-> <<"P","i","l","a","t","e","s">>,
   vendor |-> 0, description |-> 0],
  \* date in the future
  [isObject |-> TRUE, type |-> "debit", amount |-> [k |-> "num", v |-> 500000, nan |-> FALSE],
   currency |-> <<>>, date |-> "future",
   category |-> <<"P","i","l","a","t","e","s">>,
   vendor |-> 0, description |-> 0],
  \* date unparseable
  [isObject |-> TRUE, type |-> "debit", amount |-> [k |-> "num", v |-> 500000, nan |-> FALSE],
   currency |-> <<>>, date |-> "garbage",
   category |-> <<"P","i","l","a","t","e","s">>,
   vendor |-> 0, description |-> 0],
  \* description of 501 characters
  [isObject |-> TRUE, type |-> "debit", amount |-> [k |-> "num", v |-> 500000, nan |-> FALSE],
   currency |-> <<>>, date |-> "",
   category |-> <<"P","i","l","a","t","e","s">>,
   vendor |-> 0, description |-> 501],
  \* vendor of 101 characters
  [isObject |-> TRUE, type |-> "debit", amount |-> [k |-> "num", v |-> 500000, nan |-> FALSE],
   currency |-> <<>>, date |-> "",
   category |-> <<"P","i","l","a","t","e","s">>,
   vendor |-> 101, description |-> 0],
  \* category of 51 characters
  [isObject |-> TRUE, type |-> "debit", amount |-> [k |-> "num", v |-> 500000, nan |-> FALSE],
   currency |-> <<>>, date |-> "",
   category |-> [i \in 1..51 |-> "x"],
   vendor |-> 0, description |-> 0],
  \* currency RUPEES
  [isObject |-> TRUE, type |-> "debit", amount |-> [k |-> "num", v |-> 500000, nan |-> FALSE],
   currency |-> <<"R","U","P","E","E","S">>, date |-> "",
   category |-> <<"P","i","l","a","t","e","s">>,
   vendor |-> 0, description |-> 0],
  \* array element that is not an object
  [isObject |-> FALSE, type |-> "debit", amount |-> [k |-> "num", v |-> 500000, nan |-> FALSE],
   currency |-> <<>>, date |-> "",
   category |-> <<"P","i","l","a","t","e","s">>,
   vendor |-> 0, description |-> 0]
>>

\* What JSON.parse yields for the raw text of a backend: a parse failure, a
\* scalar, one object, or an array of at most MaxCands elements drawn from
\* the first ArrayChoices entries of RawElements.
RawOutputs ==
  {[kind |-> "invalid", items |-> <<>>], [kind |-> "scalar", items |-> <<>>]}
  \cup {[kind |-> "object", items |-> <<RawElements[i]>>] :
          i \in {j \in 1..Len(RawElements) : RawElements[j].isObject}}
  \cup {[kind |-> "array", items |-> [k \in DOMAIN f |-> RawElements[f[k]]]] :
          f \in UNION {[1..n -> 1..ArrayChoices] : n \in 0..MaxCands}}

\* Contents of default_categories the pipeline is run against: with and
\* without a fallback category.
TemplateSets == {
  <<[default_category_id |-> "d1", name |-> <<"F","o","o","d"," ","&"," ","D","i","n","i","n","g">>, type |-> "expense"],
    [default_category_id |-> "d2", name |-> <<"H","o","u","s","e">>, type |-> "expense"],
    [default_category_id |-> "d3", name |-> <<"O","t","h","e","r">>, type |-> "expense"],
    [default_category_id |-> "d4", name |-> <<"T","r","a","n","s","p","o","r","t">>, type |-> "expense"]>>,
  <<[default_category_id |-> "d1", name |-> <<"F","o","o","d"," ","&"," ","D","i","n","i","n","g">>, type |-> "expense"],
    [default_category_id |-> "d4", name |-> <<"T","r","a","n","s","p","o","r","t">>, type |-> "expense"]>>
}

\* Contents of categories the pipeline is run against: no custom rows, or a
\* custom category of the family, a soft-deleted one and another family's.
CustomSets == {
  <<>>,
  <<[category_id |-> "c1", family_id |-> "fam1", default_category_id |-> NULL,
     name |-> <<"P","e","t","s">>, type |-> "expense", is_deleted |-> FALSE,
     deleted_at |-> NULL, deleted_by |-> NULL],
    [category_id |-> "c2", family_id |-> "fam1", default_category_id |-> NULL,
     name |-> <<"A","n","o","t","h","e","r">>, type |-> "expense", is_deleted |-> TRUE,
     deleted_at |-> "earlier", deleted_by |-> "u2"],
    [category_id |-> "c3", family_id |-> "fam2", default_category_id |-> NULL,
     name |-> <<"O","t","h","e","r">>, type |-> "expense", is_deleted |-> FALSE,
     deleted_at |-> NULL, deleted_by |-> NULL]>>
}

\* What the speech backend returns for a voice note: nothing, blanks,
\* or text.
Transcripts == {
  <<>>,
  <<" ", " ">>,
  <<"c","o","f","f","e","e"," ","5","0">>
}

\* The message types processMessage dispatches to an extraction handler.
MessageKinds == {"text", "image", "audio", "document"}

---------------------------------------------------------------------------
(* Message processing: processMessage and the handlers of text, image,     *)
(* audio and document messages, for a message that is not a command, from  *)
(* a linked and subscribed user.                                           *)

\* The sender's user row.
User == [user_id |-> "u1", family_id |-> "fam1"]

\* Outcomes of the three calls of one sendTextMessage-bearing path.
SendOutcomes == [1..3 -> BOOLEAN]

\* handleTextMessage up to the save loop: fetch the categories, call the
\* active provider, and either report that nothing was found or enter the
\* loop over the transactions.
HandleTextMessage ==
  /\ mPc = "received"
  /\ mKind = "text"
  /\ \E fetchOk \in BOOLEAN, aiOk \in BOOLEAN, raw \in RawOutputs, sendOk \in BOOLEAN :
       LET categories == IF fetchOk THEN getCategoriesForFamily(User.family_id)
                         ELSE <<>>
           result == parseTransactionJSON(currentProvider, raw)
       IN /\ mCategories' = categories
          /\ IF ~aiOk
             THEN /\ mPc' = "caught"
                  /\ mOutcome' = "ProviderUnavailable"
                  /\ mTransactions' = <<>>
             ELSE IF result.kind = "null"
             THEN /\ mPc' = IF sendOk THEN "done" ELSE "caught"
                  /\ mOutcome' = "NoTransactionFound"
                  /\ mTransactions' = <<>>
             ELSE /\ mPc' = "saving"
                  /\ mOutcome' = "Extracted"
                  /\ mTransactions' = result.items
          /\ mIsArray' = (aiOk /\ result.kind = "array")
          /\ mRaw' = IF aiOk THEN raw ELSE NoRaw
  /\ mIdx' = 1
  /\ UNCHANGED <<currentProvider, default_categories, categories_table,
                 transactions_table, mLast, mAttempted, mRejected, mKind,
                 mValidated, inbox>>
  /\ UNCHANGED resolveVars
  /\ UNCHANGED audioVars
  /\ UNCHANGED catalogVars

\* The object extractFromAudio returns when the provider's extraction
\* returned null: {...null, raw_text} holds nothing but raw_text.
RawTextOnly == [type |-> "", amount |-> [v |-> 0, nan |-> TRUE],
                currency |-> <<>>, date |-> "", category |-> <<>>,
                vendor |-> 0, description |-> 0]

\* extractFromAudio with no provider switch under way: it throws when a
\* provider call throws or the transcript is blank; otherwise it returns
\* the provider's list, or one object with raw_text added.
extractFromAudioResult(provider, providerOk, transcribedText, raw) ==
  LET result == parseTransactionJSON(provider, raw)
  IN IF ~providerOk \/ Len(trim(transcribedText)) = 0
     THEN [kind |-> "threw", items |-> <<>>]
     ELSE IF result.kind = "array" THEN result
     ELSE IF result.kind = "null"
     THEN [kind |-> "object", items |-> <<RawTextOnly>>]
     ELSE result

\* What handleImageMessage and handleAudioMessage do with the extraction
\* result inside their try block: mediaOk says whether the acknowledgement
\* was delivered and the media downloaded, sendOk whether the
\* extraction-error text is delivered.
HandleExtraction(result, raw, mediaOk, failure, sendOk) ==
  /\ IF ~mediaOk
     THEN /\ mPc' = "handlerCaught"
          /\ mOutcome' = "MediaFailed"
          /\ mTransactions' = <<>>
     ELSE IF result.kind = "threw"
     THEN /\ mPc' = "handlerCaught"
          /\ mOutcome' = failure
          /\ mTransactions' = <<>>
     ELSE IF result.kind = "null"
     THEN /\ mPc' = IF sendOk THEN "done" ELSE "handlerCaught"
          /\ mOutcome' = "NoTransactionFound"
          /\ mTransactions' = <<>>
     ELSE /\ mPc' = "saving"
          /\ mOutcome' = "Extracted"
          /\ mTransactions' = result.items
  /\ mIsArray' = (mediaOk /\ result.kind = "array")
  /\ mRaw' = IF mediaOk /\ result.kind # "threw" THEN raw ELSE NoRaw
  /\ mIdx' = 1
  /\ UNCHANGED <<currentProvider, default_categories, categories_table,
                 transactions_table, mLast, mAttempted, mRejected, mKind,
                 mValidated, inbox>>
  /\ UNCHANGED resolveVars
  /\ UNCHANGED audioVars
  /\ UNCHANGED catalogVars

\* handleImageMessage up to its save loop.
HandleImageMessage ==
  /\ mPc = "received"
  /\ mKind = "image"
  /\ \E mediaOk \in BOOLEAN, fetchOk \in BOOLEAN, aiOk \in BOOLEAN,
        raw \in RawOutputs, sendOk \in BOOLEAN :
       /\ mCategories' = IF mediaOk /\ fetchOk
                         THEN getCategoriesForFamily(User.family_id) ELSE <<>>
       /\ HandleExtraction(IF aiOk THEN parseTransactionJSON(currentProvider, raw)
                           ELSE [kind |-> "threw", items |-> <<>>],
                           raw, mediaOk, "ProviderUnavailable", sendOk)

\* handleAudioMessage up to its save loop.
HandleAudioMessage ==
  /\ mPc = "received"
  /\ mKind = "audio"
  /\ \E mediaOk \in BOOLEAN, fetchOk \in BOOLEAN, aiOk \in BOOLEAN,
        transcribedText \in Transcripts, raw \in RawOutputs, sendOk \in BOOLEAN :
       /\ mCategories' = IF mediaOk /\ fetchOk
                         THEN getCategoriesForFamily(User.family_id) ELSE <<>>
       /\ HandleExtraction(extractFromAudioResult(currentProvider, aiOk,
                                                  transcribedText, raw),
                           raw, mediaOk,
                           IF aiOk THEN "TranscriptionFailed"
                           ELSE "ProviderUnavailable",
                           sendOk)

\* handleDocumentMessage up to its call of saveTransaction.
HandleDocumentMessage ==
  /\ mPc = "received"
  /\ mKind = "document"
  /\ \E mediaOk \in BOOLEAN, fetchOk \in BOOLEAN, aiOk \in BOOLEAN,
        raw \in RawOutputs, sendOk \in BOOLEAN :
       /\ mCategories' = IF mediaOk /\ fetchOk
                         THEN getCategoriesForFamily(User.family_id) ELSE <<>>
       /\ HandleExtraction(IF aiOk THEN parseTransactionJSON(currentProvider, raw)
                           ELSE [kind |-> "threw", items |-> <<>>],
                           raw, mediaOk, "ProviderUnavailable", sendOk)

\* One call of saveTransaction: an iteration of "for (const transaction of
\* transactions)" in the text, image and audio handlers, or the one call of
\* handleDocumentMessage, which hands over the extraction result as it is
\* (an array makes saveTransaction throw before validate and end in its
\* catch block).
SaveTransaction ==
  /\ mPc = "saving"
  /\ LET p == prepareSave(mTransactions[mIdx], User, mCategories)
         arrayPassed == mKind = "document" /\ mIsArray
     IN \E insertOk \in BOOLEAN, sendOk \in SendOutcomes :
          LET o == IF arrayPassed THEN catchSave(NoOutcome, sendOk, 1)
                   ELSE completeSave(p, insertOk, sendOk)
          IN /\ mLast' = o
             /\ transactions_table' =
                  IF o.inserted
                  THEN Append(transactions_table,
                              insertTransaction(transactionData(p, User)))
                  ELSE transactions_table
             /\ mAttempted' = mAttempted + 1
             /\ mValidated' = IF arrayPassed THEN mValidated ELSE mValidated + 1
             /\ IF o.threw
                THEN /\ mPc' = IF mKind = "text" THEN "caught" ELSE "handlerCaught"
                     /\ mIdx' = mIdx
                     /\ mOutcome' = "SaveThrew"
                ELSE IF mKind = "document" \/ mIdx = Len(mTransactions)
                THEN mPc' = "done" /\ mIdx' = mIdx /\ mOutcome' = "Completed"
                ELSE mPc' = "saving" /\ mIdx' = mIdx + 1 /\ mOutcome' = mOutcome
  /\ UNCHANGED <<currentProvider, default_categories, categories_table,
                 mCategories, mTransactions, mRejected, mKind, mIsArray,
                 mRaw, inbox>>
  /\ UNCHANGED resolveVars
  /\ UNCHANGED audioVars
  /\ UNCHANGED catalogVars

\* The catch block of handleImageMessage, handleAudioMessage and
\* handleDocumentMessage: one sendTextMessage, whose failure reaches the
\* catch block of processMessage.
HandlerCatch ==
  /\ mPc = "handlerCaught"
  /\ \E sendOk \in BOOLEAN : mPc' = IF sendOk THEN "done" ELSE "caught"
  /\ UNCHANGED <<currentProvider, default_categories, categories_table,
                 transactions_table, mCategories, mTransactions, mIdx, mLast,
                 mAttempted, mOutcome, mRejected, mKind, mIsArray, mValidated,
                 mRaw, inbox>>
  /\ UNCHANGED resolveVars
  /\ UNCHANGED audioVars
  /\ UNCHANGED catalogVars

\* The catch block of processMessage: one sendTextMessage; if it fails the
\* promise processMessage returned rejects.
ProcessMessageCatch ==
  /\ mPc = "caught"
  /\ \E sendOk \in BOOLEAN : mRejected' = ~sendOk
  /\ mPc' = "done"
  /\ UNCHANGED <<currentProvider, default_categories, categories_table,
                 transactions_table, mCategories, mTransactions, mIdx, mLast,
                 mAttempted, mOutcome, mKind, mIsArray, mValidated, mRaw,
                 inbox>>
  /\ UNCHANGED resolveVars
  /\ UNCHANGED audioVars
  /\ UNCHANGED catalogVars

\* The resolver-run variables when no resolver run is modelled.
ResolveOff == rLabel = <<>> /\ rCatalog = <<>> /\ rResult = NULL /\ rPc = "off"

\* No POST /admin/switch-ai-provider has been answered: whether setProvider
\* was called, the name asked for, the active provider before the request,
\* what setProvider returned and the HTTP status.
NoSwitch == [called |-> FALSE, requested |-> <<>>, previous |-> NULL,
             returned |-> FALSE, status |-> 0]

\* No GET /admin/health has been answered: whether checkAllProvidersHealth
\* was called, the outcome of each provider's test request, whether the
\* call threw, the entries it collected and the HTTP status.
NoHealthCheck == [called |-> FALSE, probes |-> <<>>, threw |-> FALSE,
                  entries |-> <<>>, status |-> 0]

\* No extractFromAudio call, no provider switch and no health check has
\* been made.
AudioOff ==
  /\ audioCalls = <<>>
  /\ switches = 0
  /\ startup = [threw |-> FALSE, aiProvider |-> <<>>]
  /\ switchReply = NoSwitch
  /\ healthChecks = NoHealthCheck
  /\ voice = <<>>

\* No category has been soft-deleted, listed or initialized.
NoLifeOp == [op |-> "none", categoryId |-> NULL, familyId |-> NULL,
             userId |-> NULL, returned |-> FALSE, listed |-> <<>>,
             deletes |-> 0, inits |-> 0]

\* No category is being created.
CatalogOff == catalogCalls = <<>> /\ uuidCount = 0 /\ lifeOp = NoLifeOp

\* No webhook call is being served.
NoInbox == [started |-> 0, msgs |-> <<>>]

\* The message variables before the message is handled.
MessageInit(pc) ==
  /\ mPc = pc
  /\ mCategories = <<>>
  /\ mTransactions = <<>>
  /\ mIdx = 1
  /\ mLast = NoOutcome
  /\ mAttempted = 0
  /\ mOutcome = "None"
  /\ mRejected = FALSE
  /\ mKind \in (IF pc = "off" THEN {"none"} ELSE MessageKinds)
  /\ mIsArray = FALSE
  /\ mValidated = 0
  /\ mRaw = NoRaw
  /\ inbox = NoInbox

\* A text message arrives at a process whose registry holds both providers
\* and whose store holds some catalog and no transactions.
Init ==
  /\ ResolveOff
  /\ currentProvider \in {"gemini", "openai"}
  /\ providers = <<"openai", "gemini">>
  /\ AudioOff
  /\ CatalogOff
  /\ default_categories \in TemplateSets
  /\ categories_table \in CustomSets
  /\ transactions_table = <<>>
  /\ MessageInit("received")

Next ==
  \/ HandleTextMessage
  \/ HandleImageMessage
  \/ HandleAudioMessage
  \/ HandleDocumentMessage
  \/ SaveTransaction
  \/ HandlerCatch
  \/ ProcessMessageCatch

Spec == Init /\ [][Next]_vars

---------------------------------------------------------------------------
(* Inputs of the resolver runs.                                            *)

ResolveLabels == {
  <<"F","o","o","d"," ","&"," ","D","i","n","i","n","g">>,
  <<"f","o","o","d"," ","&"," ","d","i","n","i","n","g">>,
  <<" ","F","O","O","D"," ","&"," ","D","I","N","I","N","G"," ">>,
  <<"g","r","o","c","e","r","i","e","s">>,
  <<"g","r","o","c","e","r","y">>,
  <<"h","o","u","s","e"," ","r","e","p","a","i","r">>,
  <<"H","o","u","s","e">>,
  <<"h","o","u","s","e"," ","r","e","n","t">>,
  <<"b","i","l","l","s">>,
  <<"P","i","l","a","t","e","s">>,
  <<"O","t","h","e","r">>,
  <<"o","t","h","e","r">>,
  <<"a","n","o","t","h","e","r">>,
  <<"o","t","h">>,
  <<"i","n","c","o","m","e">>,
  <<"f","u","e","l">>,
  <<"T","r","a","n","s","p","o","r","t">>,
  <<"r","e","n","t">>,
  <<"c","a","t"," ","f","o","o","d">>,
  <<"r","e","s","t","a","u","r","a","n","t">>,
  <<"f","o","o","d"," ","t","r","a","n","s","p","o","r","t">>,
  <<"R","e","n","t","a","l"," ","i","n","c","o","m","e">>,
  NotAString
}

BaseCatalog == <<
  [category_id |-> "d1", name |-> <<"E","m","p","l","o","y","m","e","n","t">>, type |-> "income"],
  [category_id |-> "d2", name |-> <<"F","o","o","d"," ","&"," ","D","i","n","i","n","g">>, type |-> "expense"],
  [category_id |-> "d3", name |-> <<"H","o","u","s","e">>, type |-> "expense"],
  [category_id |-> "d4", name |-> <<"O","t","h","e","r">>, type |-> "expense"],
  [category_id |-> "d5", name |-> <<"R","e","n","t","a","l">>, type |-> "income"],
  [category_id |-> "d6", name |-> <<"T","r","a","n","s","p","o","r","t">>, type |-> "expense"],
  [category_id |-> "d7", name |-> <<"T","r","a","n","s","p","o","r","t","a","t","i","o","n">>, type |-> "expense"],
  [category_id |-> "c1", name |-> <<"O","t","h","e","r">>, type |-> "income"],
  [category_id |-> "c2", name |-> <<"P","e","t","s">>, type |-> "expense"]
>>

\* The entries of BaseCatalog with index in I, in catalog order.
RECURSIVE pickEntries(_, _)
pickEntries(i, I) ==
  IF i > Len(BaseCatalog) THEN <<>>
  ELSE IF i \in I THEN <<BaseCatalog[i]>> \o pickEntries(i + 1, I)
       ELSE pickEntries(i + 1, I)

\* Catalogs the resolver is run on: sub-lists of BaseCatalog.
ResolveCatalogs ==
  {pickEntries(1, I) : I \in {J \in SUBSET (1..Len(BaseCatalog)) :
                                Cardinality(J) <= MaxCatalog}}

ResolveInit ==
  /\ rLabel \in ResolveLabels
  /\ rCatalog \in ResolveCatalogs
  /\ rResult = NULL
  /\ rPc = "call"
  /\ currentProvider = "gemini"
  /\ providers = <<"gemini">>
  /\ AudioOff
  /\ CatalogOff
  /\ default_categories = <<>>
  /\ categories_table = <<>>
  /\ transactions_table = <<>>
  /\ MessageInit("off")

\* One call of getCategoryByName(rLabel, rCatalog).
Resolve ==
  /\ rPc = "call"
  /\ rResult' = getCategoryByName(rLabel, rCatalog)
  /\ rPc' = "returned"
  /\ UNCHANGED <<rLabel, rCatalog, currentProvider>>
  /\ UNCHANGED storeVars
  /\ UNCHANGED messageVars
  /\ UNCHANGED audioVars
  /\ UNCHANGED catalogVars

ResolveNext == Resolve

SpecResolve == ResolveInit /\ [][ResolveNext]_vars


---------------------------------------------------------------------------
(* Provider registry: AIServiceFactory, its runtime switch and             *)
(* extractFromAudio.                                                       *)

\* Provider names passed to setProvider and set in AI_PROVIDER.
ProviderNames == {
  <<"o","p","e","n","a","i">>,
  <<"g","e","m","i","n","i">>,
  <<"O","p","e","n","A","I">>,
  <<"c","l","a","u","d","e">>
}

\* The key providers.get looks up for a lower-cased name.
registryKey(name) ==
  IF name = <<"o","p","e","n","a","i">> THEN "openai"
  ELSE IF name = <<"g","e","m","i","n","i">> THEN "gemini"
  ELSE "unregistered"

\* Mutant of setProvider: the fallback to the first registered provider
\* is taken whether or not a provider is active.
setProvider_FallbackAlways(current, registry, providerName) ==
  LET key == registryKey(toLowerCase(providerName))
      provider == find({i \in 1..Len(registry) : registry[i] = key})
  IN IF provider = 0
     THEN [currentProvider |-> IF Len(registry) > 0 THEN registry[1]
                               ELSE current,
           returned |-> FALSE]
     ELSE [currentProvider |-> key, returned |-> TRUE]

\* Mutant of setProvider: an unknown name never falls back.
setProvider_NoFallback(current, registry, providerName) ==
  LET key == registryKey(toLowerCase(providerName))
      provider == find({i \in 1..Len(registry) : registry[i] = key})
  IN IF provider = 0
     THEN [currentProvider |-> current, returned |-> FALSE]
     ELSE [currentProvider |-> key, returned |-> TRUE]

\* setProvider: {currentProvider, returned}.
setProvider(current, registry, providerName) ==
  LET key == registryKey(toLowerCase(providerName))
      provider == find({i \in 1..Len(registry) : registry[i] = key})
  IN IF provider = 0
     THEN [currentProvider |-> IF current = NULL /\ Len(registry) > 0
                               THEN registry[1] ELSE current,
           returned |-> FALSE]
     ELSE [currentProvider |-> key, returned |-> TRUE]

\* _initializeProviders: the registry and the active provider after
\* construction; aiProvider is <<>> when AI_PROVIDER is unset.
initializeProviders(openaiKey, geminiKey, aiProvider) ==
  LET registry == (IF openaiKey THEN <<"openai">> ELSE <<>>)
                    \o (IF geminiKey THEN <<"gemini">> ELSE <<>>)
      defaultProvider == toLowerCase(IF aiProvider = <<>>
                                     THEN <<"g","e","m","i","n","i">>
                                     ELSE aiProvider)
      current == setProvider(NULL, registry, defaultProvider).currentProvider
  IN [providers |-> registry,
      currentProvider |-> current,
      threw |-> current = NULL]

\* Mutant of checkHealth: the test request is not wrapped in try/catch.
checkHealth_NoCatch(name, apiOk) ==
  [threw |-> ~apiOk, healthy |-> TRUE, provider |-> name]

\* checkHealth of OpenAIProvider and GeminiProvider: the test request and
\* its catch block; apiOk is FALSE when the request throws.
checkHealth(name, apiOk) ==
  [threw |-> FALSE, healthy |-> apiOk, provider |-> name]

\* The loop of checkAllProvidersHealth from the i-th registered provider
\* on: "healthChecks[name] = await provider.checkHealth()".  A probe that
\* throws ends the loop and the call.
RECURSIVE healthLoop(_, _, _, _)
healthLoop(registry, apiOk, i, healthChecksSoFar) ==
  IF i > Len(registry) THEN [threw |-> FALSE, entries |-> healthChecksSoFar]
  ELSE LET probe == checkHealth(registry[i], apiOk[i])
       IN IF probe.threw THEN [threw |-> TRUE, entries |-> healthChecksSoFar]
          ELSE healthLoop(registry, apiOk, i + 1,
                          Append(healthChecksSoFar,
                                 [name |-> registry[i],
                                  healthy |-> probe.healthy,
                                  provider |-> probe.provider]))

\* AIServiceFactory.checkAllProvidersHealth.
checkAllProvidersHealth(registry, apiOk) == healthLoop(registry, apiOk, 1, <<>>)

\* Raw extraction outputs for a transcript: unparseable, one object, a list.
AudioRawOutputs == {
  [kind |-> "invalid", items |-> <<>>],
  [kind |-> "object", items |-> <<RawElements[1]>>],
  [kind |-> "array", items |-> <<RawElements[1], RawElements[3]>>]
}

\* An extractFromAudio call that has not started.
IdleCall == [pc |-> "idle", startedOn |-> NULL, transcribedOn |-> NULL,
             extractedOn |-> NULL, returned |-> "none",
             transcript |-> "none", error |-> "none"]

\* The messages of the errors an extractFromAudio call can end with: the
\* providers' "<name> transcription failed: ..." (with Gemini's own
\* empty-text error inside), the factory's error for a blank transcript,
\* and the providers' "<name> text extraction failed: ...".
TranscriptionErrors == {"transcription failed",
                        "transcription failed: Audio transcription returned empty text",
                        "No text could be transcribed from audio"}

\* Mutant of transcriptionOutcome: the factory does not test the
\* transcript for blankness.
transcriptionOutcome_NoBlankCheck(provider, ok, transcribedText) ==
  IF ~ok THEN [threw |-> TRUE, error |-> "transcription failed"]
  ELSE IF Len(trim(transcribedText)) = 0 /\ provider = "gemini"
  THEN [threw |-> TRUE,
        error |-> "transcription failed: Audio transcription returned empty text"]
  ELSE [threw |-> FALSE, error |-> "none"]

\* Step 1 of extractFromAudio: the provider's transcribeAudio throws when
\* its request throws (ok is FALSE), GeminiProvider also when the trimmed
\* text is empty; the factory throws when the transcript it received is
\* empty or blank.
transcriptionOutcome(provider, ok, transcribedText) ==
  IF ~ok THEN [threw |-> TRUE, error |-> "transcription failed"]
  ELSE IF Len(trim(transcribedText)) = 0
  THEN IF provider = "gemini"
       THEN [threw |-> TRUE,
             error |-> "transcription failed: Audio transcription returned empty text"]
       ELSE [threw |-> TRUE, error |-> "No text could be transcribed from audio"]
  ELSE [threw |-> FALSE, error |-> "none"]

\* extractFromAudio up to its first await: this.transcribeAudio reads
\* this.currentProvider and hands the file to that provider.
ExtractFromAudio(c) ==
  /\ ~startup.threw
  /\ audioCalls[c].pc = "idle"
  /\ audioCalls' = [audioCalls EXCEPT ![c] =
       [@ EXCEPT !.pc = "transcribing",
                 !.startedOn = currentProvider,
                 !.transcribedOn = currentProvider]]
  /\ UNCHANGED <<currentProvider, providers, switches, startup, switchReply,
                 healthChecks, voice>>
  /\ UNCHANGED <<resolveVars, storeVars, messageVars, catalogVars>>

\* extractFromAudio resumes with the transcript: it throws when the
\* provider threw or the transcript is blank; otherwise this.extractFromText
\* reads this.currentProvider and hands the transcript to that provider.
TranscriptionReturns(c) ==
  /\ audioCalls[c].pc = "transcribing"
  /\ \E ok \in BOOLEAN, transcribedText \in Transcripts :
       LET step == transcriptionOutcome(audioCalls[c].transcribedOn, ok,
                                        transcribedText)
           heard == IF ~ok THEN "failed"
                    ELSE IF Len(trim(transcribedText)) = 0 THEN "blank"
                    ELSE "text"
       IN audioCalls' = [audioCalls EXCEPT ![c] =
            IF step.threw
            THEN [@ EXCEPT !.pc = "threw", !.transcript = heard,
                           !.error = step.error]
            ELSE [@ EXCEPT !.pc = "extracting", !.transcript = heard,
                           !.extractedOn = currentProvider]]
  /\ UNCHANGED <<currentProvider, providers, switches, startup, switchReply,
                 healthChecks, voice>>
  /\ UNCHANGED <<resolveVars, storeVars, messageVars, catalogVars>>

\* extractFromAudio resumes with the extraction result and returns it with
\* raw_text added: a list, or one object (which holds nothing but raw_text
\* when the provider returned null).
ExtractionReturns(c) ==
  /\ audioCalls[c].pc = "extracting"
  /\ \E ok \in BOOLEAN, raw \in AudioRawOutputs :
       LET result == parseTransactionJSON(audioCalls[c].extractedOn, raw)
       IN audioCalls' = [audioCalls EXCEPT ![c] =
            IF ~ok THEN [@ EXCEPT !.pc = "threw",
                                  !.error = "text extraction failed"]
            ELSE [@ EXCEPT !.pc = "returned",
                           !.returned = IF result.kind = "array" THEN "array"
                                        ELSE IF result.kind = "object" THEN "object"
                                        ELSE "rawTextOnly"]]
  /\ UNCHANGED <<currentProvider, providers, switches, startup, switchReply,
                 healthChecks, voice>>
  /\ UNCHANGED <<resolveVars, storeVars, messageVars, catalogVars>>

\* POST /admin/switch-ai-provider: switchProvider calls setProvider.
\* A request without a provider is answered 400 before setProvider is
\* called; so is one for which setProvider returned false.
SetProvider ==
  /\ ~startup.threw
  /\ switches < MaxSwitches
  /\ \E provider \in ProviderNames \cup {<<>>} :
       IF provider = <<>>
       THEN /\ currentProvider' = currentProvider
            /\ switchReply' = [called |-> FALSE, requested |-> provider,
                               previous |-> currentProvider,
                               returned |-> FALSE, status |-> 400]
       ELSE LET success == setProvider(currentProvider, providers, provider)
            IN /\ currentProvider' = success.currentProvider
               /\ switchReply' = [called |-> TRUE, requested |-> provider,
                                  previous |-> currentProvider,
                                  returned |-> success.returned,
                                  status |-> IF success.returned THEN 200
                                             ELSE 400]
  /\ switches' = switches + 1
  /\ UNCHANGED <<providers, audioCalls, startup, healthChecks, voice>>
  /\ UNCHANGED <<resolveVars, storeVars, messageVars, catalogVars>>

\* GET /admin/health: the store probe, the active provider's probe and
\* checkAllProvidersHealth; 500 from the catch block, 200 when the store
\* and the active provider are healthy, 503 otherwise.
GetAdminHealth ==
  /\ ~startup.threw
  /\ \E supabaseHealthy \in BOOLEAN, currentOk \in BOOLEAN,
        apiOk \in [1..Len(providers) -> BOOLEAN] :
       LET aiHealth == checkHealth(currentProvider, currentOk)
           allAIProviders == IF aiHealth.threw
                             THEN [threw |-> FALSE, entries |-> <<>>]
                             ELSE checkAllProvidersHealth(providers, apiOk)
       IN healthChecks' =
            [called |-> ~aiHealth.threw, probes |-> apiOk,
             threw |-> allAIProviders.threw,
             entries |-> allAIProviders.entries,
             status |-> IF aiHealth.threw \/ allAIProviders.threw THEN 500
                        ELSE IF supabaseHealthy /\ aiHealth.healthy THEN 200
                        ELSE 503]
  /\ UNCHANGED <<currentProvider, providers, audioCalls, switches, startup,
                 switchReply, voice>>
  /\ UNCHANGED <<resolveVars, storeVars, messageVars, catalogVars>>

\* The process after the registry is constructed, with no audio call
\* started; when construction threw ("No AI provider available") the
\* module failed to load and nothing else runs.
AudioInit ==
  /\ \E openaiKey \in BOOLEAN, geminiKey \in BOOLEAN,
        aiProvider \in ProviderNames \cup {<<>>} :
       LET made == initializeProviders(openaiKey, geminiKey, aiProvider)
       IN /\ providers = made.providers
          /\ currentProvider = made.currentProvider
          /\ startup = [threw |-> made.threw, aiProvider |-> aiProvider]
  /\ audioCalls = [c \in 1..MaxAudioCalls |-> IdleCall]
  /\ switches = 0
  /\ switchReply = NoSwitch
  /\ healthChecks = NoHealthCheck
  /\ voice = <<>>
  /\ ResolveOff
  /\ CatalogOff
  /\ MessageInit("off")
  /\ default_categories = <<>>
  /\ categories_table = <<>>
  /\ transactions_table = <<>>

AudioNext ==
  \/ \E c \in 1..MaxAudioCalls : ExtractFromAudio(c)
  \/ \E c \in 1..MaxAudioCalls : TranscriptionReturns(c)
  \/ \E c \in 1..MaxAudioCalls : ExtractionReturns(c)
  \/ SetProvider

SpecAudio == AudioInit /\ [][AudioNext]_vars

\* The registry and its two admin routes, with no extractFromAudio call.
RegistryInit ==
  /\ \E openaiKey \in BOOLEAN, geminiKey \in BOOLEAN,
        aiProvider \in ProviderNames \cup {<<>>} :
       LET made == initializeProviders(openaiKey, geminiKey, aiProvider)
       IN /\ providers = made.providers
          /\ currentProvider = made.currentProvider
          /\ startup = [threw |-> made.threw, aiProvider |-> aiProvider]
  /\ audioCalls = <<>>
  /\ switches = 0
  /\ switchReply = NoSwitch
  /\ healthChecks = NoHealthCheck
  /\ voice = <<>>
  /\ ResolveOff
  /\ CatalogOff
  /\ MessageInit("off")
  /\ default_categories = <<>>
  /\ categories_table = <<>>
  /\ transactions_table = <<>>

RegistryNext ==
  \/ SetProvider
  \/ GetAdminHealth

SpecRegistry == RegistryInit /\ [][RegistryNext]_vars

---------------------------------------------------------------------------
(* Voice messages and their temporary files: handleAudioMessage,           *)
(* processAudioMedia, the providers' transcribeAudio and convertToWav.     *)

\* How an ffmpeg run of convertToWav can end: the 'end' event, or the
\* 'error' event before or after ffmpeg has created the output file.
Conversions == {"converted", "failedBeforeOutput", "failedAfterOutput"}

\* convertToWav: whether the promise resolved with outputPath, and whether
\* the file at outputPath exists afterwards.
convertToWav(conversion) ==
  [resolved |-> conversion = "converted",
   outputExists |-> conversion # "failedBeforeOutput"]

\* The files of a voice message after the active provider's transcribeAudio:
\* OpenAIProvider streams the downloaded file; GeminiProvider converts it
\* and, in its finally block, unlinks the file at wavFilePath, a local
\* that is set only when convertToWav resolved.
filesAfterTranscribe(provider, files, conversion) ==
  IF provider # "gemini" THEN files
  ELSE LET made == convertToWav(conversion)
           written == IF made.outputExists THEN files \cup {"wav"} ELSE files
       IN IF made.resolved THEN written \ {"wav"} ELSE written

\* A voice message that has not been dispatched to handleAudioMessage.
IdleVoice == [pc |-> "received", tempPath |-> FALSE, files |-> {},
              failed |-> "none"]

\* handleAudioMessage up to processAudioMedia: the reaction and the
\* "Transcribing" text are sent.
VoiceReceived(v) ==
  /\ voice[v].pc = "received"
  /\ \E sendOk \in BOOLEAN :
       voice' = [voice EXCEPT ![v] =
         IF sendOk THEN [@ EXCEPT !.pc = "downloading"]
         ELSE [@ EXCEPT !.pc = "catch", !.failed = "notification"]]
  /\ UNCHANGED <<currentProvider, providers, audioCalls, switches, startup,
                 switchReply, healthChecks>>
  /\ UNCHANGED <<resolveVars, storeVars, messageVars, catalogVars>>

\* processAudioMedia: validation, download and saveToTempFile; a failed
\* upload to storage is logged and the path is returned all the same.
ProcessAudioMedia(v) ==
  /\ voice[v].pc = "downloading"
  /\ \E savedOk \in BOOLEAN :
       voice' = [voice EXCEPT ![v] =
         IF savedOk
         THEN [@ EXCEPT !.pc = "transcribing", !.tempPath = TRUE,
                        !.files = @ \cup {"temp"}]
         ELSE [@ EXCEPT !.pc = "catch", !.failed = "download"]]
  /\ UNCHANGED <<currentProvider, providers, audioCalls, switches, startup,
                 switchReply, healthChecks>>
  /\ UNCHANGED <<resolveVars, storeVars, messageVars, catalogVars>>

\* Step 1 of extractFromAudio for the message: transcribeAudio of the
\* active provider and the factory's blank-transcript test.
VoiceTranscribe(v) ==
  /\ voice[v].pc = "transcribing"
  /\ \E conversion \in Conversions, requestOk \in BOOLEAN,
        transcribedText \in Transcripts :
       LET made == convertToWav(conversion)
           ok == requestOk /\ (currentProvider = "gemini" => made.resolved)
           step == transcriptionOutcome(currentProvider, ok, transcribedText)
           left == filesAfterTranscribe(currentProvider, voice[v].files,
                                        conversion)
       IN voice' = [voice EXCEPT ![v] =
            IF step.threw
            THEN [@ EXCEPT !.pc = "catch", !.files = left,
                           !.failed = IF currentProvider = "gemini"
                                         /\ ~made.resolved
                                      THEN "conversion" ELSE "transcription"]
            ELSE [@ EXCEPT !.pc = "extracting", !.files = left]]
  /\ UNCHANGED <<currentProvider, providers, audioCalls, switches, startup,
                 switchReply, healthChecks>>
  /\ UNCHANGED <<resolveVars, storeVars, messageVars, catalogVars>>

\* Step 2 of extractFromAudio for the message: extractFromText.
VoiceExtract(v) ==
  /\ voice[v].pc = "extracting"
  /\ \E ok \in BOOLEAN :
       voice' = [voice EXCEPT ![v] =
         IF ok THEN [@ EXCEPT !.pc = "saving"]
         ELSE [@ EXCEPT !.pc = "catch", !.failed = "extraction"]]
  /\ UNCHANGED <<currentProvider, providers, audioCalls, switches, startup,
                 switchReply, healthChecks>>
  /\ UNCHANGED <<resolveVars, storeVars, messageVars, catalogVars>>

\* The save loop of handleAudioMessage: it ends, or a saveTransaction call
\* throws (its own catch block could not send the failure text).
VoiceSave(v) ==
  /\ voice[v].pc = "saving"
  /\ \E ok \in BOOLEAN :
       voice' = [voice EXCEPT ![v] =
         IF ok THEN [@ EXCEPT !.pc = "finally"]
         ELSE [@ EXCEPT !.pc = "catch", !.failed = "save"]]
  /\ UNCHANGED <<currentProvider, providers, audioCalls, switches, startup,
                 switchReply, healthChecks>>
  /\ UNCHANGED <<resolveVars, storeVars, messageVars, catalogVars>>

\* The catch block of handleAudioMessage: it sends the failure text and
\* the reaction; when a send throws the handler rejects, after finally.
VoiceCatch(v) ==
  /\ voice[v].pc = "catch"
  /\ \E sendOk \in BOOLEAN :
       voice' = [voice EXCEPT ![v] =
         [@ EXCEPT !.pc = "finally",
                   !.failed = IF sendOk THEN @ ELSE "notification"]]
  /\ UNCHANGED <<currentProvider, providers, audioCalls, switches, startup,
                 switchReply, healthChecks>>
  /\ UNCHANGED <<resolveVars, storeVars, messageVars, catalogVars>>

\* The finally block of handleAudioMessage: deleteTempFile(tempPath) when
\* tempPath was assigned.
VoiceFinally(v) ==
  /\ voice[v].pc = "finally"
  /\ voice' = [voice EXCEPT ![v] =
       [@ EXCEPT !.pc = "ended",
                 !.files = IF voice[v].tempPath THEN @ \ {"temp"} ELSE @]]
  /\ UNCHANGED <<currentProvider, providers, audioCalls, switches, startup,
                 switchReply, healthChecks>>
  /\ UNCHANGED <<resolveVars, storeVars, messageVars, catalogVars>>

\* Voice messages arrive at a process whose registry holds both providers.
VoiceInit ==
  /\ currentProvider \in {"gemini", "openai"}
  /\ providers = <<"openai", "gemini">>
  /\ voice = [v \in 1..MaxVoice |-> IdleVoice]
  /\ audioCalls = <<>>
  /\ switches = 0
  /\ startup = [threw |-> FALSE, aiProvider |-> <<>>]
  /\ switchReply = NoSwitch
  /\ healthChecks = NoHealthCheck
  /\ ResolveOff
  /\ CatalogOff
  /\ MessageInit("off")
  /\ default_categories = <<>>
  /\ categories_table = <<>>
  /\ transactions_table = <<>>

VoiceNext ==
  \/ \E v \in 1..MaxVoice : VoiceReceived(v)
  \/ \E v \in 1..MaxVoice : ProcessAudioMedia(v)
  \/ \E v \in 1..MaxVoice : VoiceTranscribe(v)
  \/ \E v \in 1..MaxVoice : VoiceExtract(v)
  \/ \E v \in 1..MaxVoice : VoiceSave(v)
  \/ \E v \in 1..MaxVoice : VoiceCatch(v)
  \/ \E v \in 1..MaxVoice : VoiceFinally(v)

SpecVoice == VoiceInit /\ [][VoiceNext]_vars

---------------------------------------------------------------------------
(* Category creation: findCategoryIdByName, addCategoryToFamily and the    *)
(* "add category" command, for callers of one family running together.     *)

\* Rows initializeDefaultCategoriesForFamily writes for a family: one copy
\* of every template, linked to it.
InstanceIds == <<"i1", "i2", "i3", "i4">>

\* familyCategories of initializeDefaultCategoriesForFamily: a copy of every
\* template for the family, linked to it, under the given ids.
familyCategories(familyId, defaultCategories, ids) ==
  [i \in 1..Len(defaultCategories) |->
     [category_id |-> ids[i], family_id |-> familyId,
      default_category_id |-> defaultCategories[i].default_category_id,
      name |-> defaultCategories[i].name, type |-> defaultCategories[i].type,
      is_deleted |-> FALSE,
      deleted_at |-> NULL, deleted_by |-> NULL]]

initializeDefaultCategoriesForFamily(familyId, defaultCategories) ==
  familyCategories(familyId, defaultCategories, InstanceIds)

\* Ids uuidv4 hands out, in order.
NewIds == <<"n1", "n2", "n3", "n4", "n5", "n6", "n7", "n8", "n9", "n10",
            "n11", "n12">>

uuidv4 == NewIds[uuidCount + 1]

\* Columns of default_categories.
DefaultColumns == {"default_category_id", "name", "type"}

\* .ilike('name', pattern) for a pattern without wildcards.
ilike(value, pattern) == toLowerCase(value) = toLowerCase(pattern)

\* .single(): the row, or an error unless exactly one row matched (data
\* is then null; rows holds the row when there is no error).
single(rows) == [error |-> Len(rows) # 1, rows |-> rows]

\* findCategoryIdByName.  The first query selects column category_id of
\* default_categories under the alias default_category_id; the function
\* then reads property category_id of the row, which the aliased row does
\* not have.  The second query sees the family's active custom rows only.
findCategoryIdByName(categoryName, familyId) ==
  LET defaultQuery ==
        IF "category_id" \notin DefaultColumns
        THEN [error |-> TRUE, rows |-> <<>>]
        ELSE single(SelectSeq(default_categories,
                              LAMBDA row : ilike(row.name, categoryName)))
      customQuery ==
        single(SelectSeq(categories_table,
                         LAMBDA row : /\ row.family_id = familyId
                                      /\ ilike(row.name, categoryName)
                                      /\ row.is_deleted = FALSE
                                      /\ row.default_category_id = NULL))
  IN IF ~defaultQuery.error THEN NULL
     ELSE IF ~customQuery.error THEN customQuery.rows[1].category_id
     ELSE NULL

\* newCategory of addCategoryToFamily.
newCategory(familyId, categoryName, categoryType) ==
  [category_id |-> uuidv4, family_id |-> familyId, default_category_id |-> NULL,
   name |-> categoryName, type |-> categoryType, is_deleted |-> FALSE,
     deleted_at |-> NULL, deleted_by |-> NULL]

\* Names given to the "add category" command and to addCategoryToFamily.
CategoryNames == {
  <<"G","y","m">>,
  <<"g","y","m">>,
  <<"O","t","h","e","r">>,
  <<"P","E","T","S">>,
  <<"X">>
}

\* Contents of categories the creations run against: the custom rows of
\* CustomSets with the other family's row renamed, with or without the
\* family's onboarding copies of the templates.
CatalogCustom == <<
  [category_id |-> "c1", family_id |-> "fam1", default_category_id |-> NULL,
   name |-> <<"P","e","t","s">>, type |-> "expense", is_deleted |-> FALSE,
     deleted_at |-> NULL, deleted_by |-> NULL],
  [category_id |-> "c2", family_id |-> "fam1", default_category_id |-> NULL,
   name |-> <<"G","y","m">>, type |-> "expense", is_deleted |-> TRUE,
     deleted_at |-> "earlier", deleted_by |-> "u2"],
  [category_id |-> "c3", family_id |-> "fam2", default_category_id |-> NULL,
   name |-> <<"G","Y","M">>, type |-> "expense", is_deleted |-> FALSE,
     deleted_at |-> NULL, deleted_by |-> NULL]>>

\* A caller that is not inside a call.
IdleCaller == [pc |-> "idle", via |-> "none", name |-> <<>>, type |-> "",
               calls |-> 0, returned |-> <<>>, replies |-> <<>>]

\* Number of creations callers 1..n have started.
RECURSIVE callsStarted(_)
callsStarted(n) ==
  IF n = 0 THEN 0 ELSE catalogCalls[n].calls + callsStarted(n - 1)

\* handleAddCategoryCommand up to the call of addCategoryToFamily: the
\* length check and the handler's own existence check.
HandleAddCategoryCommand(c) ==
  /\ catalogCalls[c].pc = "idle"
  /\ callsStarted(MaxCallers) < MaxAdds
  /\ \E categoryName \in CategoryNames :
       LET existingId == findCategoryIdByName(categoryName, User.family_id)
           started == [catalogCalls[c] EXCEPT !.calls = @ + 1,
                                              !.via = "command",
                                              !.name = categoryName,
                                              !.type = "expense"]
       IN catalogCalls' = [catalogCalls EXCEPT ![c] =
            IF Len(categoryName) < 2 \/ Len(categoryName) > MaxCategoryLen
            THEN [started EXCEPT !.replies = Append(@, "badLength")]
            ELSE IF existingId # NULL
            THEN [started EXCEPT !.replies = Append(@, "alreadyExists")]
            ELSE [started EXCEPT !.pc = "adding"]]
  /\ UNCHANGED <<uuidCount, lifeOp, currentProvider>>
  /\ UNCHANGED <<resolveVars, storeVars, messageVars, audioVars>>

\* A call of addCategoryToFamily from elsewhere, up to its existence check.
AddCategoryToFamily(c) ==
  /\ catalogCalls[c].pc = "idle"
  /\ callsStarted(MaxCallers) < MaxAdds
  /\ \E categoryName \in CategoryNames, categoryType \in {"expense", "income"} :
       catalogCalls' = [catalogCalls EXCEPT ![c] =
         [@ EXCEPT !.calls = @ + 1, !.via = "direct", !.pc = "adding",
                   !.name = categoryName, !.type = categoryType]]
  /\ UNCHANGED <<uuidCount, lifeOp, currentProvider>>
  /\ UNCHANGED <<resolveVars, storeVars, messageVars, audioVars>>

\* The reply of handleAddCategoryCommand to what addCategoryToFamily
\* returned; other callers get no reply.
addReply(call, categoryId) ==
  IF call.via # "command" THEN call.replies
  ELSE Append(call.replies, IF categoryId # NULL THEN "added" ELSE "failed")

\* The existence check of addCategoryToFamily: it returns the id found, or
\* goes on to insert.
AddCheck(c) ==
  /\ catalogCalls[c].pc = "adding"
  /\ LET call == catalogCalls[c]
         existingId == findCategoryIdByName(call.name, User.family_id)
     IN catalogCalls' = [catalogCalls EXCEPT ![c] =
          IF existingId # NULL
          THEN [call EXCEPT !.pc = "idle",
                            !.returned = Append(@, [name |-> call.name,
                                                    id |-> existingId]),
                            !.replies = addReply(call, existingId)]
          ELSE [call EXCEPT !.pc = "inserting"]]
  /\ UNCHANGED <<uuidCount, lifeOp, currentProvider>>
  /\ UNCHANGED <<resolveVars, storeVars, messageVars, audioVars>>

\* The insert of addCategoryToFamily: the new row's id is returned, or null
\* when the store refuses the insert.
AddInsert(c) ==
  /\ catalogCalls[c].pc = "inserting"
  /\ uuidCount < Len(NewIds)
  /\ \E insertOk \in BOOLEAN :
       LET call == catalogCalls[c]
           row == newCategory(User.family_id, call.name, call.type)
           categoryId == IF insertOk THEN row.category_id ELSE NULL
       IN /\ categories_table' = IF insertOk THEN Append(categories_table, row)
                                 ELSE categories_table
          /\ catalogCalls' = [catalogCalls EXCEPT ![c] =
               [call EXCEPT !.pc = "idle",
                            !.returned = Append(@, [name |-> call.name,
                                                    id |-> categoryId]),
                            !.replies = addReply(call, categoryId)]]
  /\ uuidCount' = uuidCount + 1
  /\ UNCHANGED <<default_categories, transactions_table, currentProvider,
                 lifeOp>>
  /\ UNCHANGED <<resolveVars, messageVars, audioVars>>

\* A family with its catalog and no creation under way.
CatalogInit ==
  /\ default_categories \in TemplateSets
  /\ \E onboarded \in BOOLEAN :
       categories_table =
         (IF onboarded
          THEN initializeDefaultCategoriesForFamily(User.family_id,
                                                    default_categories)
          ELSE <<>>) \o CatalogCustom
  /\ transactions_table = <<>>
  /\ catalogCalls = [c \in 1..MaxCallers |-> IdleCaller]
  /\ uuidCount = 0
  /\ lifeOp = NoLifeOp
  /\ currentProvider = "gemini"
  /\ providers = <<"gemini">>
  /\ AudioOff
  /\ ResolveOff
  /\ MessageInit("off")

CatalogNext ==
  \/ \E c \in 1..MaxCallers : HandleAddCategoryCommand(c)
  \/ \E c \in 1..MaxCallers : AddCategoryToFamily(c)
  \/ \E c \in 1..MaxCallers : AddCheck(c)
  \/ \E c \in 1..MaxCallers : AddInsert(c)

SpecCatalog == CatalogInit /\ [][CatalogNext]_vars

---------------------------------------------------------------------------
(* Category lifecycle: softDeleteCategory, getCategoriesForFamily and      *)
(* initializeDefaultCategoriesForFamily run again for a family.            *)

Families == {"fam1", "fam2"}

\* Transactions recorded before the calls: one on a custom category of the
\* family, one on its soft-deleted category and one of the other family.
LifeTransactions == <<
  [family_id |-> "fam1", amount |-> 50000, type |-> "debit", category_id |-> "c1"],
  [family_id |-> "fam1", amount |-> 20000, type |-> "debit", category_id |-> "c2"],
  [family_id |-> "fam2", amount |-> 70000, type |-> "debit", category_id |-> "c3"]>>

\* Ids passed to softDeleteCategory: those of rows of categories, and one
\* that no row has.
categoryIds ==
  {categories_table[i].category_id : i \in 1..Len(categories_table)}
    \cup {"missing"}

\* The update of softDeleteCategory on a row.
tombstone(row, userId) ==
  [row EXCEPT !.is_deleted = TRUE, !.deleted_at = "now", !.deleted_by = userId]

\* Mutant of softDeleteCategory: the update is not filtered by family_id.
softDeleteCategory_NoFamilyFilter(categoryId, familyId, userId, storeOk) ==
  LET matched == {i \in 1..Len(categories_table) :
                    categories_table[i].category_id = categoryId}
  IN IF ~storeOk \/ Cardinality(matched) # 1
     THEN [returned |-> FALSE, categories |-> categories_table]
     ELSE [returned |-> TRUE,
           categories |-> [i \in 1..Len(categories_table) |->
                             IF i \in matched
                             THEN tombstone(categories_table[i], userId)
                             ELSE categories_table[i]]]

\* softDeleteCategory: the update with its two filters and .single(); it
\* returns the row, or null when the request failed or did not match
\* exactly one row (nothing is updated then).
softDeleteCategory(categoryId, familyId, userId, storeOk) ==
  LET matched == {i \in 1..Len(categories_table) :
                    /\ categories_table[i].category_id = categoryId
                    /\ categories_table[i].family_id = familyId}
  IN IF ~storeOk \/ Cardinality(matched) # 1
     THEN [returned |-> FALSE, categories |-> categories_table]
     ELSE [returned |-> TRUE,
           categories |-> [i \in 1..Len(categories_table) |->
                             IF i \in matched
                             THEN tombstone(categories_table[i], userId)
                             ELSE categories_table[i]]]

\* A call of softDeleteCategory.
SoftDeleteCategory ==
  /\ lifeOp.deletes < MaxDeletes
  /\ \E categoryId \in categoryIds, familyId \in Families, storeOk \in BOOLEAN :
       LET done == softDeleteCategory(categoryId, familyId, User.user_id, storeOk)
       IN /\ categories_table' = done.categories
          /\ lifeOp' = [lifeOp EXCEPT !.op = "softDelete",
                                      !.categoryId = categoryId,
                                      !.familyId = familyId,
                                      !.userId = User.user_id,
                                      !.returned = done.returned,
                                      !.listed = <<>>,
                                      !.deletes = @ + 1]
  /\ UNCHANGED <<default_categories, transactions_table, catalogCalls,
                 uuidCount, currentProvider>>
  /\ UNCHANGED <<resolveVars, messageVars, audioVars>>

\* A call of getCategoriesForFamily.
GetCategoriesForFamily ==
  /\ \E familyId \in Families :
       lifeOp' = [lifeOp EXCEPT !.op = "list",
                                !.categoryId = NULL,
                                !.familyId = familyId,
                                !.userId = NULL,
                                !.returned = TRUE,
                                !.listed = getCategoriesForFamily(familyId)]
  /\ UNCHANGED <<catalogCalls, uuidCount, currentProvider>>
  /\ UNCHANGED <<resolveVars, storeVars, messageVars, audioVars>>

\* A run of initializeDefaultCategoriesForFamily for the family: it reads
\* the templates, gives every copy a fresh id and inserts the copies in one
\* request; it returns false when a request fails or there is no template.
InitializeDefaultCategoriesForFamily ==
  /\ lifeOp.inits < MaxInits
  /\ uuidCount + Len(default_categories) <= Len(NewIds)
  /\ \E fetchOk \in BOOLEAN, insertOk \in BOOLEAN :
       LET rows == familyCategories(User.family_id, default_categories,
                     SubSeq(NewIds, uuidCount + 1,
                            uuidCount + Len(default_categories)))
           made == fetchOk /\ Len(default_categories) > 0
           returned == made /\ insertOk
       IN /\ categories_table' = IF returned THEN categories_table \o rows
                                 ELSE categories_table
          /\ uuidCount' = IF made THEN uuidCount + Len(default_categories)
                          ELSE uuidCount
          /\ lifeOp' = [lifeOp EXCEPT !.op = "initialize",
                                      !.categoryId = NULL,
                                      !.familyId = User.family_id,
                                      !.userId = NULL,
                                      !.returned = returned,
                                      !.listed = <<>>,
                                      !.inits = IF returned THEN @ + 1 ELSE @]
  /\ UNCHANGED <<default_categories, transactions_table, catalogCalls,
                 currentProvider>>
  /\ UNCHANGED <<resolveVars, messageVars, audioVars>>

\* A new family before onboarding, beside the custom rows of CatalogCustom
\* and earlier transactions.
LifeInit ==
  /\ default_categories \in TemplateSets
  /\ categories_table = CatalogCustom
  /\ transactions_table = LifeTransactions
  /\ catalogCalls = <<>>
  /\ uuidCount = 0
  /\ lifeOp = NoLifeOp
  /\ currentProvider = "gemini"
  /\ providers = <<"gemini">>
  /\ AudioOff
  /\ ResolveOff
  /\ MessageInit("off")

LifeNext ==
  \/ SoftDeleteCategory
  \/ GetCategoriesForFamily
  \/ InitializeDefaultCategoriesForFamily

SpecLifecycle == LifeInit /\ [][LifeNext]_vars

---------------------------------------------------------------------------
(* An onboarded family under custom-category creations and soft deletions. *)

\* The entry the last tier of getCategoryByName looks for.
isOtherExpense(cat) ==
  toLowerCase(cat.name) = <<"o","t","h","e","r">> /\ cat.type = "expense"

\* The template sets the documented seed produces: those with the template
\* "Other".
SeededTemplateSets ==
  {templates \in TemplateSets :
     \E t \in 1..Len(templates) : isOtherExpense(templates[t])}

\* A family right after onboarding: its copies of the seeded templates,
\* beside the custom rows of CatalogCustom, and no call under way.
TenantInit ==
  /\ default_categories \in SeededTemplateSets
  /\ categories_table =
       initializeDefaultCategoriesForFamily(User.family_id, default_categories)
         \o CatalogCustom
  /\ transactions_table = LifeTransactions
  /\ catalogCalls = [c \in 1..MaxCallers |-> IdleCaller]
  /\ uuidCount = 0
  /\ lifeOp = NoLifeOp
  /\ currentProvider = "gemini"
  /\ providers = <<"gemini">>
  /\ AudioOff
  /\ ResolveOff
  /\ MessageInit("off")

TenantNext ==
  \/ AddCategoryToFamily(1)
  \/ AddCheck(1)
  \/ AddInsert(1)
  \/ SoftDeleteCategory

SpecTenant == TenantInit /\ [][TenantNext]_vars

---------------------------------------------------------------------------
(* A text message handled while categories of the family are soft-deleted. *)

\* A text message of the family arrives; the family has a custom category
\* "Pilates" and no transactions.
RaceInit ==
  /\ ResolveOff
  /\ currentProvider = "gemini"
  /\ providers = <<"openai", "gemini">>
  /\ AudioOff
  /\ CatalogOff
  /\ default_categories \in SeededTemplateSets
  /\ categories_table =
       <<[category_id |-> "c1", family_id |-> User.family_id,
          default_category_id |-> NULL,
          name |-> <<"P","i","l","a","t","e","s">>, type |-> "expense",
          is_deleted |-> FALSE, deleted_at |-> NULL, deleted_by |-> NULL]>>
  /\ transactions_table = <<>>
  /\ MessageInit("received")
  /\ mKind = "text"

RaceNext ==
  \/ HandleTextMessage
  \/ SaveTransaction
  \/ ProcessMessageCatch
  \/ SoftDeleteCategory

SpecRace == RaceInit /\ [][RaceNext]_vars

---------------------------------------------------------------------------
(* A webhook call: handleIncoming starts processMessage for every message  *)
(* of the call without awaiting it, and processMessage decides whether the *)
(* message reaches a handler.                                              *)

\* Characters sanitizeInput removes.
StrippedChars == {"<", ">", "'", "\"", ";"}

\* sanitizeInput for a string: trim, remove the characters, limit the
\* length.
sanitizeInput(input) ==
  LET kept == SelectSeq(trim(input), LAMBDA ch : ch \notin StrippedChars)
  IN SubSeq(kept, 1, IF Len(kept) < MaxInputLen THEN Len(kept) ELSE MaxInputLen)

\* Bodies of text messages.
TextBodies == {
  <<"L","I","N","K"," ","a">>,
  <<" ","l","i","n","k","e","d"," ","5">>,
  <<"v","e","r","i","f","y"," ","1">>,
  <<"<","h","e","l","p",">">>,
  <<"h","e","l","p"," ","m","e">>,
  <<"t","e","a"," ","5">>
}

\* Messages of a webhook call: their type and, for text, their body.
WebhookMessages ==
  [type : {"text"}, text : TextBodies]
    \cup [type : {"image", "audio", "voice", "document", "sticker"},
          text : {<<>>}]

\* Step 1 of processMessage: the command a message is, or "none".
command(msg) ==
  LET text == toUpperCase(sanitizeInput(msg.text))
  IN IF msg.type # "text" THEN "none"
     ELSE IF startsWith(text, <<"L","I","N","K">>) THEN "LINK"
     ELSE IF startsWith(text, <<"V","E","R","I","F","Y">>) THEN "VERIFY"
     ELSE IF text = <<"H","E","L","P">> THEN "HELP"
     ELSE "none"

\* Message types step 4 of processMessage has a handler for.
HandledTypes == {"text", "image", "audio", "voice", "document"}

\* A message the loop of handleIncoming has not reached.
queued(message) ==
  [type |-> message.type, text |-> message.text, pc |-> "queued",
   user |-> "notLookedUp", subscription |-> "notChecked",
   extraction |-> FALSE, persisted |-> 0, outcome |-> "None"]

\* processMessage has returned: the message is done with the given outcome.
ended(msg, outcome) == [msg EXCEPT !.pc = "done", !.outcome = outcome]

\* A call inside the try block of processMessage threw: control is in its
\* catch block.
thrown(msg) == [msg EXCEPT !.pc = "caught"]

\* Mutant of onRejected: processMessage is started without a rejection
\* handler.
onRejected_NoCatch(msg) ==
  ended(msg, "UnhandledRejection")

\* The rejection handler handleIncoming attaches to the promise of
\* processMessage: the error is logged under the context 'processMessage'.
onRejected(msg) ==
  ended(msg, "Logged")

\* Mutant of subscriptionGate: the handlers are reached whatever
\* checkSubscription returned.
subscriptionGate_Open(hasSubscription) ==
  TRUE

\* Step 3 of processMessage: whether the message goes on to a handler.
subscriptionGate(hasSubscription) ==
  hasSubscription

\* The message record i of the call with a new value.
setMessage(i, msg) == [inbox EXCEPT !.msgs[i] = msg]

\* The loop of handleIncoming reaches the next message and calls
\* processMessage, which runs up to its first await.
StartProcessMessage ==
  /\ inbox.started < Len(inbox.msgs)
  /\ inbox' = [inbox EXCEPT !.started = @ + 1,
                            !.msgs[inbox.started + 1].pc = "received"]
  /\ UNCHANGED <<mPc, mCategories, mTransactions, mIdx, mLast, mAttempted,
                 mOutcome, mRejected, mKind, mIsArray, mValidated, mRaw>>
  /\ UNCHANGED <<resolveVars, storeVars, audioVars, catalogVars,
                 currentProvider>>

\* logEvent and markMessageAsRead, neither of which throws, and step 1 of
\* processMessage: a LINK, VERIFY or HELP command is answered and
\* processMessage returns.
HandleCommands(i) ==
  /\ inbox.msgs[i].pc = "received"
  /\ \E logOk \in BOOLEAN, readOk \in BOOLEAN, commandOk \in BOOLEAN :
       LET msg == inbox.msgs[i]
       IN inbox' = setMessage(i,
            IF command(msg) = "none" THEN [msg EXCEPT !.pc = "lookup"]
            ELSE IF commandOk THEN ended(msg, command(msg))
            ELSE thrown(msg))
  /\ UNCHANGED <<mPc, mCategories, mTransactions, mIdx, mLast, mAttempted,
                 mOutcome, mRejected, mKind, mIsArray, mValidated, mRaw>>
  /\ UNCHANGED <<resolveVars, storeVars, audioVars, catalogVars,
                 currentProvider>>

\* Step 2 of processMessage: getUserByWhatsapp returns the user of a
\* verified link, returns null when there is none, or throws; without a
\* user the linking instructions are sent.
GetUserByWhatsapp(i) ==
  /\ inbox.msgs[i].pc = "lookup"
  /\ \E found \in {"verified", "none", "threw"}, sendOk \in BOOLEAN :
       LET msg == [inbox.msgs[i] EXCEPT !.user = found]
       IN inbox' = setMessage(i,
            IF found = "threw" THEN thrown(msg)
            ELSE IF found = "verified" THEN [msg EXCEPT !.pc = "subscription"]
            ELSE IF sendOk THEN ended(msg, "NotLinked")
            ELSE thrown(msg))
  /\ UNCHANGED <<mPc, mCategories, mTransactions, mIdx, mLast, mAttempted,
                 mOutcome, mRejected, mKind, mIsArray, mValidated, mRaw>>
  /\ UNCHANGED <<resolveVars, storeVars, audioVars, catalogVars,
                 currentProvider>>

\* Step 3 of processMessage: checkSubscription returns hasSubscription
\* (false also when its query fails); without a subscription the
\* subscription notice is sent.
CheckSubscription(i) ==
  /\ inbox.msgs[i].pc = "subscription"
  /\ \E hasSubscription \in BOOLEAN, sendOk \in BOOLEAN :
       LET msg == [inbox.msgs[i] EXCEPT !.subscription =
                     IF hasSubscription THEN "active" ELSE "inactive"]
       IN inbox' = setMessage(i,
            IF subscriptionGate(hasSubscription)
            THEN [msg EXCEPT !.pc = "handling"]
            ELSE IF sendOk THEN ended(msg, "SubscriptionRequired")
            ELSE thrown(msg))
  /\ UNCHANGED <<mPc, mCategories, mTransactions, mIdx, mLast, mAttempted,
                 mOutcome, mRejected, mKind, mIsArray, mValidated, mRaw>>
  /\ UNCHANGED <<resolveVars, storeVars, audioVars, catalogVars,
                 currentProvider>>

\* Step 4 of processMessage: the handler of the message's type runs; it
\* may call the provider, may save a transaction, and returns or throws.
\* A type without a handler is answered with a text.
HandleMessage(i) ==
  /\ inbox.msgs[i].pc = "handling"
  /\ \E extracted \in BOOLEAN, saved \in BOOLEAN, returned \in BOOLEAN :
       LET msg == inbox.msgs[i]
           handled == msg.type \in HandledTypes
           inserted == handled /\ extracted /\ saved
           after == [msg EXCEPT !.extraction = handled /\ extracted,
                                !.persisted = IF inserted THEN 1 ELSE 0]
       IN /\ inbox' = setMessage(i,
               IF ~returned THEN thrown(after)
               ELSE ended(after, IF handled THEN "Handled" ELSE "Unsupported"))
          /\ transactions_table' =
               IF inserted
               THEN Append(transactions_table,
                           insertTransaction([family_id |-> User.family_id,
                                              amount |-> 500,
                                              type |-> "debit",
                                              category_id |-> NULL]))
               ELSE transactions_table
  /\ UNCHANGED <<mPc, mCategories, mTransactions, mIdx, mLast, mAttempted,
                 mOutcome, mRejected, mKind, mIsArray, mValidated, mRaw>>
  /\ UNCHANGED <<resolveVars, default_categories, categories_table,
                 audioVars, catalogVars, currentProvider>>

\* The catch block of processMessage: the error is logged and a text is
\* sent; when the send throws, the promise of processMessage rejects.
CatchProcessMessage(i) ==
  /\ inbox.msgs[i].pc = "caught"
  /\ \E sendOk \in BOOLEAN :
       inbox' = setMessage(i,
         IF sendOk THEN ended(inbox.msgs[i], "ErrorReported")
         ELSE [inbox.msgs[i] EXCEPT !.pc = "rejected"])
  /\ UNCHANGED <<mPc, mCategories, mTransactions, mIdx, mLast, mAttempted,
                 mOutcome, mRejected, mKind, mIsArray, mValidated, mRaw>>
  /\ UNCHANGED <<resolveVars, storeVars, audioVars, catalogVars,
                 currentProvider>>

\* The rejection of the promise of processMessage reaches the handler
\* attached in handleIncoming.
OnRejected(i) ==
  /\ inbox.msgs[i].pc = "rejected"
  /\ inbox' = setMessage(i, onRejected(inbox.msgs[i]))
  /\ UNCHANGED <<mPc, mCategories, mTransactions, mIdx, mLast, mAttempted,
                 mOutcome, mRejected, mKind, mIsArray, mValidated, mRaw>>
  /\ UNCHANGED <<resolveVars, storeVars, audioVars, catalogVars,
                 currentProvider>>

\* A webhook call with MaxMessages messages arrives; none has been started.
WebhookInit ==
  /\ inbox \in {[started |-> 0, msgs |-> [i \in 1..MaxMessages |-> queued(batch[i])]] :
                  batch \in [1..MaxMessages -> WebhookMessages]}
  /\ mPc = "off"
  /\ mCategories = <<>>
  /\ mTransactions = <<>>
  /\ mIdx = 1
  /\ mLast = NoOutcome
  /\ mAttempted = 0
  /\ mOutcome = "None"
  /\ mRejected = FALSE
  /\ mKind = "none"
  /\ mIsArray = FALSE
  /\ mValidated = 0
  /\ mRaw = NoRaw
  /\ default_categories \in SeededTemplateSets
  /\ categories_table = <<>>
  /\ transactions_table = <<>>
  /\ currentProvider = "gemini"
  /\ providers = <<"gemini">>
  /\ AudioOff
  /\ CatalogOff
  /\ ResolveOff

WebhookNext ==
  \/ StartProcessMessage
  \/ \E i \in 1..MaxMessages : \/ HandleCommands(i)
                               \/ GetUserByWhatsapp(i)
                               \/ CheckSubscription(i)
                               \/ HandleMessage(i)
                               \/ CatchProcessMessage(i)
                               \/ OnRejected(i)

\* Every continuation that is ready is eventually run by the event loop.
SpecWebhook == WebhookInit /\ [][WebhookNext]_vars /\ WF_vars(WebhookNext)

---------------------------------------------------------------------------
(* Resolution tiers, stated over a label and a catalog without reference   *)
(* to the resolver's loops.                                                *)

\* Lower-cased name of the i-th catalog entry.
LName(cats, i) == toLowerCase(cats[i].name)

\* Smallest element of a non-empty set of integers.
Least(S) == CHOOSE i \in S : \A j \in S : i <= j

\* Entries whose name equals the label, letter case ignored.
ExactHits(label, cats) ==
  {i \in 1..Len(cats) : LName(cats, i) = toLowerCase(label)}

\* Entries whose name equals the label, letter case and surrounding
\* whitespace ignored.
ExactHitsTrimmed(label, cats) ==
  {i \in 1..Len(cats) : LName(cats, i) = trim(toLowerCase(label))}

\* Entries whose name contains the t-th target of the k-th keyword.
TargetHits(k, t, cats) ==
  {i \in 1..Len(cats) :
     includes(LName(cats, i),
              toLowerCase(categoryMappings[k].targetCategories[t]))}

\* Targets of the k-th keyword that some catalog name contains.
LiveTargets(k, cats) ==
  {t \in 1..Len(categoryMappings[k].targetCategories) :
     TargetHits(k, t, cats) # {}}

\* Keywords the label contains whose mapped target some catalog name contains.
LiveKeywords(label, cats) ==
  {k \in 1..Len(categoryMappings) :
     /\ includes(trim(toLowerCase(label)), categoryMappings[k].keyword)
     /\ LiveTargets(k, cats) # {}}

\* The entry the synonym tier selects: first live keyword in declaration
\* order, its first live target, the first catalog entry containing it.
SynonymHit(label, cats) ==
  LET k == Least(LiveKeywords(label, cats))
      t == Least(LiveTargets(k, cats))
  IN Least(TargetHits(k, t, cats))

\* Entries in a containment relation with the label, in either direction.
SubstringHits(label, cats) ==
  {i \in 1..Len(cats) :
     \/ includes(trim(toLowerCase(label)), LName(cats, i))
     \/ includes(LName(cats, i), trim(toLowerCase(label)))}

\* Entries named "Other" of type expense.
FallbackHits(cats) ==
  {i \in 1..Len(cats) :
     LName(cats, i) = <<"o","t","h","e","r">> /\ cats[i].type = "expense"}

\* The tier that decides the resolution of label against cats.
Tier(label, cats) ==
  IF ExactHitsTrimmed(label, cats) # {} THEN "exact"
  ELSE IF LiveKeywords(label, cats) # {} THEN "synonym"
  ELSE IF SubstringHits(label, cats) # {} THEN "substring"
  ELSE IF FallbackHits(cats) # {} THEN "fallback"
  ELSE "none"

\* The id the tiers select, evaluated in the order exact, synonym,
\* substring, fallback.
TierResult(label, cats) ==
  CASE Tier(label, cats) = "exact" ->
         cats[Least(ExactHitsTrimmed(label, cats))].category_id
    [] Tier(label, cats) = "synonym" -> cats[SynonymHit(label, cats)].category_id
    [] Tier(label, cats) = "substring" ->
         cats[Least(SubstringHits(label, cats))].category_id
    [] Tier(label, cats) = "fallback" -> cats[Least(FallbackHits(cats))].category_id
    [] OTHER -> NULL

---------------------------------------------------------------------------
(* Claims about the resolver (specification SpecResolve).                  *)

\* C7: exact match outranks fuzzy match.  Whenever some catalog entry's name
\* equals the label case-insensitively, getCategoryByName returns the id of
\* the first such entry, whatever synonym keywords the label contains and
\* whatever other entries would match by synonym or substring.
C7_ExactOutranksFuzzy ==
  (rPc = "returned" /\ ExactHits(rLabel, rCatalog) # {})
    => rResult = rCatalog[Least(ExactHits(rLabel, rCatalog))].category_id

\* C7 witness: a label with an exact match that also contains a synonym
\* keyword whose target selects a different entry; the exact entry is returned.
C7_Witness ==
  /\ rPc = "returned"
  /\ ExactHits(rLabel, rCatalog) # {}
  /\ LiveKeywords(rLabel, rCatalog) # {}
  /\ SynonymHit(rLabel, rCatalog) # Least(ExactHits(rLabel, rCatalog))
  /\ rResult = rCatalog[Least(ExactHits(rLabel, rCatalog))].category_id

\* C8: the tiers are evaluated in the order exact, synonym, substring,
\* fallback and the first tier with a hit decides; within the synonym tier
\* the first keyword in declaration order that the label contains and whose
\* target some catalog name contains wins.
C8_TierOrder ==
  (rPc = "returned" /\ rLabel # NotAString)
    => rResult = TierResult(rLabel, rCatalog)

\* C8 witness: the synonym tier and the substring tier select different
\* entries and the synonym tier's entry is returned.
C8_Witness ==
  /\ rPc = "returned"
  /\ Tier(rLabel, rCatalog) = "synonym"
  /\ SubstringHits(rLabel, rCatalog) # {}
  /\ Least(SubstringHits(rLabel, rCatalog)) # SynonymHit(rLabel, rCatalog)
  /\ rResult = rCatalog[SynonymHit(rLabel, rCatalog)].category_id

\* C12: getCategoryByName never throws: for any label (a value that is not
\* a string included) and any catalog (an empty one and one without an
\* "Other" expense entry included) it returns the id of an entry of the
\* catalog or null, and it returns null when the label matches at no tier
\* and the catalog has no fallback entry.
C12_NeverThrows ==
  rPc = "returned" =>
    /\ rResult # TypeError
    /\ \/ rResult = NULL
       \/ \E i \in 1..Len(rCatalog) : rCatalog[i].category_id = rResult
    /\ (rLabel # NotAString /\ Tier(rLabel, rCatalog) = "none") => rResult = NULL

\* C12 witness: a call with a label that is not a string against a catalog
\* with entries has returned null.
C12_Witness ==
  /\ rPc = "returned"
  /\ rLabel = NotAString
  /\ Len(rCatalog) > 0
  /\ rResult = NULL

---------------------------------------------------------------------------
(* Claims about the message pipeline (specification Spec).                 *)

\* C1: when one message yields N candidates, saveTransaction is attempted
\* for every one of them, whatever the outcome of an earlier candidate and
\* whichever store writes and notifications to the sender fail: once the
\* message has been handled, the number of saveTransaction calls equals the
\* number of candidates.
C1_EveryCandidateAttempted ==
  mPc = "done" => mAttempted = Len(mTransactions)

\* C2: no transaction row with a non-positive amount is ever persisted.
C2_PersistedAmountPositive ==
  \A i \in 1..Len(transactions_table) : transactions_table[i].amount > 0

\* C2 witness: a message whose first candidate has a negative amount has
\* been handled to the end and its sibling is the only row persisted.
C2_Witness ==
  /\ mPc = "done"
  /\ Len(mTransactions) = 2
  /\ mTransactions[1].amount.v < 0
  /\ mAttempted = 2
  /\ Len(transactions_table) = 1

\* The schema constraints C3 names, on a candidate: type, amount, date,
\* description and vendor.
SchemaViolation(c) ==
  \/ c.type \notin {"credit", "debit"}
  \/ c.amount.nan
  \/ c.amount.v <= 0
  \/ c.date = "future"
  \/ c.description > MaxDescriptionLen
  \/ c.vendor > MaxVendorLen

\* C3: a saveTransaction call for a candidate that violates a schema
\* constraint never calls the category resolver or insertTransaction, leaves
\* the store unchanged and sends no confirmation: it reports the failure
\* (the extraction-error message, or the failure message of the catch block
\* when that send fails) and returns.
C3_InvalidReturnsImmediately ==
  [][(mAttempted' = mAttempted + 1 /\ SchemaViolation(mTransactions[mIdx]))
       => /\ ~mLast'.valid
          /\ ~mLast'.resolved
          /\ ~mLast'.insertCalled
          /\ transactions_table' = transactions_table
          /\ mLast'.sent \in {<<"extractionError">>, <<"saveFailed">>, <<>>}]_vars

\* C3 witness: a candidate dated in the future has been rejected and
\* reported, and the store is empty.
C3_Witness ==
  /\ mAttempted = 1
  /\ mTransactions[1].date = "future"
  /\ ~mLast.valid
  /\ mLast.sent = <<"extractionError">>
  /\ transactions_table = <<>>

\* The latest saveTransaction call was for a valid candidate whose label
\* matches no catalog entry exactly, by synonym or by containment, against a
\* catalog that holds an "Other" entry of type expense.
FellBack ==
  /\ mAttempted >= 1
  /\ mLast.valid
  /\ Tier(mLast.label, mCategories) = "fallback"

C10_FlagOnlyForFallbackTier ==
  (mAttempted >= 1 /\ mLast.valid /\ mLast.wasNotFound)
    => Tier(mLast.label, mCategories) = "fallback"

\* C11: when resolution returns null because the catalog is empty or has
\* no fallback entry, the sender is told neither what an ordinary save with
\* a matched category tells (the confirmation alone) nor what a fallback
\* save tells (the confirmation and the advisory).
C11_NullResolutionSurfaced ==
  (mAttempted >= 1 /\ mLast.valid /\ mLast.categoryId = NULL)
    => mLast.sent \notin {<<"confirmation">>, <<"confirmation", "advisory">>}

\* C13: provider output that is not parseable as JSON yields
\* NoTransactionFound for every message type: the handler receives no
\* candidate, saveTransaction is not called and nothing is persisted.
C13_UnparseableIsNoTransactionFound ==
  mRaw.kind = "invalid"
    => /\ mOutcome = "NoTransactionFound"
       /\ mTransactions = <<>>
       /\ mAttempted = 0
       /\ transactions_table = <<>>

\* C14: the candidate list a text, image or document handler receives for
\* a raw output that parsed as a JSON object or array does not depend on
\* the provider that served the call: it is the list of the usable elements
\* of that output, which every registered provider's parser produces for it.
C14_SameListOnEveryProvider ==
  (mRaw.kind \in {"object", "array"} /\ mKind \in {"text", "image", "document"})
    => \A p \in {providers[i] : i \in 1..Len(providers)} :
         mTransactions = parseTransactionJSON(p, mRaw).items

\* C15: for every message type, when the handler received a list of
\* candidates and every saveTransaction call it made returned, validate has
\* been called once for each candidate of the list: no message type drops
\* or rejects the result because it is a list.
C15_EachListedCandidateValidated ==
  (mPc = "done" /\ mOutcome = "Completed" /\ mIsArray)
    => /\ mValidated = Len(mTransactions)
       /\ mAttempted = Len(mTransactions)

\* C16: every candidate the parser of the active provider hands to a text,
\* image or document handler has an amount that is a number and strictly
\* positive: elements whose amount is missing, null, zero, negative or not
\* a number have been left out of the list.
C16_OutputAmountsPositive ==
  mKind \in {"text", "image", "document"}
    => \A i \in 1..Len(mTransactions) :
         /\ ~mTransactions[i].amount.nan
         /\ mTransactions[i].amount.v > 0

\* C17: every candidate the parser of the active provider hands to a text,
\* image or document handler is fully populated: type, currency, date and
\* category are present, and vendor and description are texts (empty when
\* the element had none), never null; for a single-object output, a missing
\* type has become debit, a missing currency INR, a missing date today and
\* a missing category "Other".
C17_FullyPopulated ==
  mKind \in {"text", "image", "document"}
    => /\ \A i \in 1..Len(mTransactions) :
            /\ mTransactions[i].type # ""
            /\ mTransactions[i].currency # <<>>
            /\ mTransactions[i].date # ""
            /\ mTransactions[i].category # <<>>
            /\ mTransactions[i].vendor # NullVendor
            /\ mTransactions[i].description >= 0
       /\ (mRaw.kind = "object" /\ Len(mTransactions) = 1) =>
            LET txn == mRaw.items[1]
                out == mTransactions[1]
            IN /\ txn.type = "" => out.type = "debit"
               /\ txn.currency = <<>> => out.currency = <<"I","N","R">>
               /\ txn.date = "" => out.date = "today"
               /\ txn.category = <<>> => out.category = <<"O","t","h","e","r">>
               /\ txn.vendor = 0 => out.vendor = 0
               /\ txn.description = 0 => out.description = 0

---------------------------------------------------------------------------
(* Claims about the provider registry (specification SpecAudio).           *)

\* C4: both steps of an extractFromAudio call run on the provider that was
\* active when the call started, even if setProvider runs between them.
C4_StepsRunOnStartingProvider ==
  \A c \in DOMAIN audioCalls :
    audioCalls[c].pc \in {"extracting", "returned"}
      => /\ audioCalls[c].transcribedOn = audioCalls[c].startedOn
         /\ audioCalls[c].extractedOn = audioCalls[c].startedOn

Registered(name) ==
  \E i \in 1..Len(providers) : providers[i] = registryKey(toLowerCase(name))

\* The latest switch request reached setProvider with a name that is not
\* registered.
UnknownSwitch == switchReply.called /\ ~Registered(switchReply.requested)

\* C18: setProvider with a name that is not registered returns false and
\* leaves the provider that was active unchanged, the admin route answers
\* 400, and an extractFromAudio call that starts afterwards runs on the
\* provider that was active before the request.
C18_UnknownNameKeepsProvider ==
  /\ [](UnknownSwitch =>
          /\ ~switchReply.returned
          /\ switchReply.status = 400
          /\ switchReply.previous # NULL => currentProvider = switchReply.previous)
  /\ [][\A c \in DOMAIN audioCalls :
          (/\ UnknownSwitch
           /\ switchReply.previous # NULL
           /\ audioCalls[c].pc = "idle"
           /\ audioCalls'[c].pc = "transcribing")
            => audioCalls'[c].startedOn = switchReply.previous]_vars

\* C18 witness: a switch to the unregistered name "claude" was answered
\* 400 and a call that is transcribing runs on the provider that was
\* active before it.
C18_Witness ==
  /\ UnknownSwitch
  /\ switchReply.requested = <<"c","l","a","u","d","e">>
  /\ switchReply.status = 400
  /\ currentProvider = switchReply.previous
  /\ \E c \in DOMAIN audioCalls :
       /\ audioCalls[c].pc = "transcribing"
       /\ audioCalls[c].startedOn = switchReply.previous

\* The name _initializeProviders passes to setProvider.
defaultProvider ==
  IF startup.aiProvider = <<>> THEN <<"g","e","m","i","n","i">>
  ELSE startup.aiProvider

\* C19: constructing the registry throws exactly when no provider is
\* registered; otherwise the active provider is a registered one, and it
\* is the first in registration order when the configured default is not
\* registered.
C19_InitializationOutcome ==
  /\ startup.threw <=> Len(providers) = 0
  /\ ~startup.threw =>
       \E i \in 1..Len(providers) : providers[i] = currentProvider
  /\ (~startup.threw /\ switches = 0 /\ ~Registered(defaultProvider)) =>
       currentProvider = providers[1]

\* C19 witness: AI_PROVIDER names "claude", both providers are registered
\* and the first registered, openai, is the active one; a health check has
\* been answered by the constructed registry.
C19_Witness ==
  /\ ~startup.threw
  /\ switches = 0
  /\ startup.aiProvider = <<"c","l","a","u","d","e">>
  /\ providers = <<"openai", "gemini">>
  /\ currentProvider = "openai"
  /\ healthChecks.called

\* C20: checkAllProvidersHealth does not throw and returns one entry for
\* every registered provider, in registration order; an entry is unhealthy
\* exactly when that provider's own test request failed, whatever happened
\* to the other providers' requests.
C20_HealthOfEveryProvider ==
  healthChecks.called =>
    /\ ~healthChecks.threw
    /\ healthChecks.status # 500
    /\ Len(healthChecks.entries) = Len(providers)
    /\ \A i \in 1..Len(providers) :
         /\ healthChecks.entries[i].name = providers[i]
         /\ healthChecks.entries[i].provider = providers[i]
         /\ healthChecks.entries[i].healthy = healthChecks.probes[i]

\* C20 witness: the first provider's test request failed and the second
\* one's succeeded; the reply holds an unhealthy entry and a healthy one.
C20_Witness ==
  /\ healthChecks.called
  /\ Len(providers) = 2
  /\ healthChecks.probes = <<FALSE, TRUE>>
  /\ Len(healthChecks.entries) = 2
  /\ ~healthChecks.entries[1].healthy
  /\ healthChecks.entries[2].healthy

---------------------------------------------------------------------------
(* Claims about voice messages (specification SpecVoice).                  *)

\* C22: when handling of a voice message has ended, by any path, neither
\* the downloaded temp file nor the converted WAV file of that message is
\* left on disk.
C22_TempFilesDeleted ==
  \A v \in DOMAIN voice : voice[v].pc = "ended" => voice[v].files = {}

---------------------------------------------------------------------------
(* Claims about category creation (specification SpecCatalog).             *)

\* Two entries of the catalog getCategoriesForFamily serves share a
\* case-insensitive name and a type.
DuplicateIn(catalog) ==
  \E i, j \in 1..Len(catalog) :
    /\ i < j
    /\ toLowerCase(catalog[i].name) = toLowerCase(catalog[j].name)
    /\ catalog[i].type = catalog[j].type

\* C5: in every reachable state no two active categories of one family
\* share a case-insensitive name and a type, whatever the interleaving of
\* concurrent creations.
C5_NoDuplicateActive ==
  \A familyId \in {"fam1", "fam2"} :
    ~DuplicateIn(getCategoriesForFamily(familyId))

\* C6: when one caller, with no other caller active, has called
\* addCategoryToFamily twice in sequence with names equal up to letter
\* case, both calls returned the same id and the family's catalog holds
\* exactly one active entry of that name.
C6_CreationIdempotent ==
  \A c \in DOMAIN catalogCalls :
    LET call == catalogCalls[c]
        catalog == getCategoriesForFamily(User.family_id)
    IN (/\ call.pc = "idle"
        /\ Len(call.returned) = 2
        /\ call.calls = 2
        /\ ilike(call.returned[1].name, call.returned[2].name)
        /\ \A d \in DOMAIN catalogCalls \ {c} : catalogCalls[d].calls = 0)
       => /\ call.returned[1].id = call.returned[2].id
          /\ Cardinality({i \in 1..Len(catalog) :
                            ilike(catalog[i].name, call.returned[1].name)}) = 1

---------------------------------------------------------------------------
(* Claims about the category lifecycle (specification SpecLifecycle).      *)

\* The family owns a category with the id, before the call.
Owns(familyId, categoryId) ==
  \E i \in 1..Len(categories_table) :
    /\ categories_table[i].category_id = categoryId
    /\ categories_table[i].family_id = familyId

\* C23: a softDeleteCategory call for a category the given family does not
\* own returns null and changes no row; a call that succeeds sets
\* is_deleted, deleted_at and deleted_by of the one row with that id and
\* nothing else; no call removes a row of categories or changes
\* transactions.
C23_SoftDeleteFrame ==
  [][lifeOp'.op = "softDelete" =>
       /\ transactions_table' = transactions_table
       /\ Len(categories_table') = Len(categories_table)
       /\ ~Owns(lifeOp'.familyId, lifeOp'.categoryId) =>
            /\ ~lifeOp'.returned
            /\ categories_table' = categories_table
       /\ \A i \in 1..Len(categories_table) :
            IF lifeOp'.returned
               /\ categories_table[i].category_id = lifeOp'.categoryId
            THEN /\ categories_table'[i].is_deleted
                 /\ categories_table'[i].deleted_by = lifeOp'.userId
                 /\ categories_table'[i].deleted_at # NULL
                 /\ categories_table'[i] =
                      [categories_table[i] EXCEPT
                         !.is_deleted = TRUE,
                         !.deleted_at = categories_table'[i].deleted_at,
                         !.deleted_by = categories_table'[i].deleted_by]
            ELSE categories_table'[i] = categories_table[i]]_vars

\* C23 witness: the family's custom category c1 was soft-deleted by the
\* latest call, its row is still there with its name, and the transaction
\* recorded on it is unchanged.
C23_Witness ==
  /\ lifeOp.op = "softDelete"
  /\ lifeOp.returned
  /\ lifeOp.categoryId = "c1"
  /\ \E i \in 1..Len(categories_table) :
       /\ categories_table[i].category_id = "c1"
       /\ categories_table[i].is_deleted
       /\ categories_table[i].deleted_by = "u1"
       /\ categories_table[i].name = <<"P","e","t","s">>
  /\ transactions_table = LifeTransactions

\* C24: a getCategoriesForFamily result for a family holds no soft-deleted
\* category of that family: neither the deleted row itself nor, for a
\* deleted instance of a template, the entry of the template it stands for.
C24_DeletedNeverListed ==
  lifeOp.op = "list" =>
    \A i \in 1..Len(categories_table) :
      (/\ categories_table[i].family_id = lifeOp.familyId
       /\ categories_table[i].is_deleted
       /\ categories_table[i].deleted_at = "now")
        => \A k \in 1..Len(lifeOp.listed) :
             /\ lifeOp.listed[k].category_id # categories_table[i].category_id
             /\ categories_table[i].default_category_id # NULL =>
                  lifeOp.listed[k].category_id
                    # categories_table[i].default_category_id

\* C25: after one or more successful runs of
\* initializeDefaultCategoriesForFamily for a family, the family has exactly
\* one row of categories for every template, linked to it.
C25_OneInstancePerTemplate ==
  lifeOp.inits >= 1 =>
    \A t \in 1..Len(default_categories) :
      Cardinality({i \in 1..Len(categories_table) :
                     /\ categories_table[i].family_id = User.family_id
                     /\ categories_table[i].default_category_id
                          = default_categories[t].default_category_id}) = 1

---------------------------------------------------------------------------
(* Claims about an onboarded family.                                       *)

\* The list getCategoriesForFamily returns for the family holds a fallback.
HasFallback(cats) == \E i \in 1..Len(cats) : isOtherExpense(cats[i])

---------------------------------------------------------------------------
(* Claims about a webhook call (specification SpecWebhook).                *)

\* Outcomes of a processMessage run that ended in a reply to the sender or
\* in a log entry.
HandledOutcomes ==
  {"LINK", "VERIFY", "HELP", "NotLinked", "SubscriptionRequired", "Handled",
   "Unsupported", "ErrorReported", "Logged"}

\* Every message of the call has ended.
AllEnded == \A i \in 1..Len(inbox.msgs) : inbox.msgs[i].pc = "done"

\* Whatever has happened to the other messages, the loop can start the next
\* message and every started message that has not ended can take its next
\* step.
NoMessageBlocked ==
  /\ inbox.started < Len(inbox.msgs) => ENABLED StartProcessMessage
  /\ \A i \in 1..Len(inbox.msgs) :
       inbox.msgs[i].pc \notin {"queued", "done"} =>
         ENABLED (\/ HandleCommands(i)
                  \/ GetUserByWhatsapp(i)
                  \/ CheckSubscription(i)
                  \/ HandleMessage(i)
                  \/ CatchProcessMessage(i)
                  \/ OnRejected(i))

\* C27: every processMessage run handleIncoming starts ends, and ends in a
\* reply to the sender or a log entry, never in an unhandled rejection; a
\* failure in one message does not keep another message of the call from
\* being processed.
C27_EveryRunEndsHandled ==
  /\ [](\A i \in 1..Len(inbox.msgs) :
          inbox.msgs[i].pc = "done" => inbox.msgs[i].outcome \in HandledOutcomes)
  /\ []NoMessageBlocked
  /\ <>AllEnded

\* The first message failed up to the rejection of its promise, which was
\* logged, and the second message was handled and saved a transaction.
C27_Witness ==
  /\ Len(inbox.msgs) >= 2
  /\ inbox.msgs[1].pc = "done" /\ inbox.msgs[1].outcome = "Logged"
  /\ inbox.msgs[2].pc = "done" /\ inbox.msgs[2].outcome = "Handled"
  /\ inbox.msgs[2].persisted = 1

\* Number of transactions messages 1..n of the call have saved.
RECURSIVE persistedUpTo(_)
persistedUpTo(n) ==
  IF n = 0 THEN 0 ELSE inbox.msgs[n].persisted + persistedUpTo(n - 1)

\* C29: a transaction is saved for a message only if, while that message
\* was processed, getUserByWhatsapp returned a verified linked user and
\* checkSubscription returned an active subscription; a LINK, VERIFY or HELP
\* command is answered before the user lookup and reaches neither the
\* provider nor the store.
C29_PersistedOnlyForSubscribedUser ==
  /\ \A i \in 1..Len(inbox.msgs) :
       LET msg == inbox.msgs[i]
       IN /\ msg.persisted > 0 =>
               msg.user = "verified" /\ msg.subscription = "active"
          /\ command(msg) # "none" =>
               /\ msg.user = "notLookedUp"
               /\ msg.subscription = "notChecked"
               /\ ~msg.extraction
               /\ msg.persisted = 0
  /\ Len(transactions_table) = persistedUpTo(Len(inbox.msgs))

\* One message of the call was a command that has been answered and the
\* other, of a subscribed user, has saved a transaction.
C29_Witness ==
  /\ \E i \in 1..Len(inbox.msgs) :
       /\ inbox.msgs[i].pc = "done"
       /\ inbox.msgs[i].outcome \in {"LINK", "VERIFY", "HELP"}
  /\ \E i \in 1..Len(inbox.msgs) :
       /\ inbox.msgs[i].persisted = 1
       /\ inbox.msgs[i].subscription = "active"
  /\ Len(transactions_table) = 1

---------------------------------------------------------------------------
(* Claims about saves racing with soft deletions (specification SpecRace). *)

\* Ids of the categories the family's catalog lists.
ActiveIds ==
  LET cats == getCategoriesForFamily(User.family_id)
  IN {cats[i].category_id : i \in 1..Len(cats)}

---------------------------------------------------------------------------
(* Claims about the replies of saveTransaction (specification Spec).       *)

\* Positions of a text among the texts the last saveTransaction call sent.
SentAt(text) == {k \in 1..Len(mLast.sent) : mLast.sent[k] = text}

\* C30: the confirmation and the success reaction of a candidate are sent
\* only when insertTransaction has succeeded for it: a candidate that failed
\* validation or whose insert failed gets neither, and the fallback advisory
\* is only sent after the confirmation of the same candidate.
C30_ConfirmationOnlyAfterInsert ==
  LET confirmed == SentAt("confirmation") # {}
      reacted == \E k \in 1..Len(mLast.reactions) : mLast.reactions[k] = "check"
  IN /\ (confirmed \/ reacted) =>
          mLast.valid /\ mLast.insertCalled /\ mLast.inserted
     /\ ~mLast.valid => ~confirmed /\ ~mLast.insertCalled
     /\ (mLast.insertCalled /\ ~mLast.inserted) => ~confirmed /\ ~reacted
     /\ \A k \in SentAt("advisory") : \E j \in SentAt("confirmation") : j < k

\* A candidate was inserted under the fallback category, confirmed, and the
\* advisory followed.
C30_Witness ==
  /\ mLast.inserted
  /\ mLast.wasNotFound
  /\ mLast.sent = <<"confirmation", "advisory">>
  /\ mLast.reactions = <<"check">>
  /\ Len(transactions_table) >= 1

===========================================================================
